---------------------------- MODULE Spec2Model ----------------------------
(***************************************************************************)
(* A model of blobman's core: the DigestTable (blobs.rs), DigestData and   *)
(* its two-part paths (digest.rs) and FilesystemStorage (filesystem.rs),   *)
(* whose ingest is broken into its system calls so that several ingests on *)
(* one storage root interleave.                                            *)
(***************************************************************************)
EXTENDS Naturals, Sequences, FiniteSets, TLC

\* ------------------------------------------------------------------ bounds

\* Longest payload, in bytes, a chunk source delivers during one ingest.
MaxPayload == 2
\* Most chunks (zero-length ones included) a chunk source delivers.
MaxChunks == 2
\* Most ingest calls started on the storage root, over all callers.
MaxIngests == 2
\* Most digests a DigestTable is made to record.
MaxTable == 3

\* The callers that ingest into the one storage root, each with its own
\* FilesystemStorage value (ingest takes &mut self).
Procs == {"p1", "p2"}

\* The byte values payloads are made of ('h').
PayloadBytes == {104}

\* The names mkstemp can give a staging file: the template with its X's
\* replaced.
StagingNames == {"staging.aaaaaaaa", "staging.bbbbbbbb"}

\* ------------------------------------------------------------ byte strings

RECURSIVE SeqsUpTo(_, _)
SeqsUpTo(S, n) ==
    IF n = 0 THEN {<<>>}
    ELSE LET shorter == SeqsUpTo(S, n - 1)
         IN  shorter \cup {Append(s, b) : s \in {t \in shorter : Len(t) = n - 1}, b \in S}

Payloads == SeqsUpTo(PayloadBytes, MaxPayload)

IsPrefix(s, t) == Len(s) <= Len(t) /\ SubSeq(t, 1, Len(s)) = s

\* An Option<T>: <<>> is None, <<v>> is Some(v).
None == <<>>
Some(v) == <<v>>

\* ------------------------------------------------------------- digest.rs

N_BYTES == 32

HexDigits == <<"0", "1", "2", "3", "4", "5", "6", "7",
               "8", "9", "a", "b", "c", "d", "e", "f">>

\* format!("{:02x}", b)
ByteToHex(b) == HexDigits[(b \div 16) + 1] \o HexDigits[(b % 16) + 1]

RECURSIVE bytes_to_hex(_)
bytes_to_hex(bytes) ==
    IF Len(bytes) = 0 THEN ""
    ELSE ByteToHex(Head(bytes)) \o bytes_to_hex(Tail(bytes))

\* DigestComputer (sha2::Sha256): Default::default() and input().  The state of
\* the accumulator is a function of the bytes fed to it so far, whatever the
\* calls they came in; it is kept as those bytes.
ComputerDefault == <<>>
\* (a slip: the accumulator restarted at every chunk)
ComputerInputRestarts(computer, data) == data
ComputerInput(computer, data) == computer \o data

\* From<DigestComputer> for DigestData: the N_BYTES bytes of s.result().
\* SHA-256 is modelled as a collision-free function of the message: the first
\* byte depends on half the length (so some messages share their first-byte
\* subdirectory and some do not), the last on the length, and the bytes
\* between carry the message.
Sha256Result(msg) ==
    [i \in 1..N_BYTES |->
        IF i = 1 THEN (17 * (Len(msg) \div 2) + 3) % 256
        ELSE IF i = N_BYTES THEN (Len(msg) * 29 + 7) % 256
        ELSE IF i - 1 <= Len(msg) THEN msg[i - 1] ELSE 0]

DigestFromComputer(computer) == Sha256Result(computer)

\* The path create_two_part_path returns, relative to the storage prefix:
\* the hex of the first byte, then the hex of the others.
TwoPartDir(digest) == <<ByteToHex(digest[1])>>
\* (a slip: self.0[..1] for self.0[1..])
TwoPartPathFirstByteTwice(digest) ==
    <<ByteToHex(digest[1]), bytes_to_hex(SubSeq(digest, 1, 1))>>
TwoPartPath(digest) == <<ByteToHex(digest[1]), bytes_to_hex(Tail(digest))>>

\* --------------------------------------------------------------- blobs.rs

\* Trie<DigestData, BlobId>: a finite map.
TrieNew == <<>>
TrieGet(trie, key) == IF key \in DOMAIN trie THEN Some(trie[key]) ELSE None
TrieInsert(trie, key, value) ==
    [k \in (DOMAIN trie) \cup {key} |-> IF k = key THEN value ELSE trie[k]]

\* (a slip: the new digest put first, moving the others up)
VecPushFront(vec, x) == <<x>> \o vec
\* Vec::push
VecPush(vec, x) == Append(vec, x)

\* DigestTable::new
DigestTableNew == [digests |-> <<>>, digest_to_id |-> TrieNew]

\* DigestTable::id_to_digest: &self.digests[id.0], BlobIds counting from 0.
id_to_digest(table, id) == table.digests[id + 1]

\* (a slip: the lookup left out, every call allocating)
digest_to_id_always_allocates(table, digest) ==
    LET id == Len(table.digests)
    IN  [table |-> [digests |-> VecPush(table.digests, digest),
                    digest_to_id |-> TrieInsert(table.digest_to_id, digest, id)],
         id |-> id]

\* (a slip: identifiers counted from one)
digest_to_id_from_one(table, digest) ==
    LET found == TrieGet(table.digest_to_id, digest)
    IN  IF found # None
        THEN [table |-> table, id |-> found[1]]
        ELSE LET id == Len(table.digests) + 1
             IN  [table |-> [digests |-> VecPush(table.digests, digest),
                             digest_to_id |-> TrieInsert(table.digest_to_id, digest, id)],
                  id |-> id]

\* DigestTable::digest_to_id: the table afterwards and the BlobId returned.
digest_to_id(table, digest) ==
    LET found == TrieGet(table.digest_to_id, digest)
    IN  IF found # None
        THEN [table |-> table, id |-> found[1]]
        ELSE LET id == Len(table.digests)
                 pushed == VecPush(table.digests, digest)
             IN  [table |-> [digests |-> pushed,
                             digest_to_id |->
                                 TrieInsert(table.digest_to_id, pushed[id + 1], id)],
                  id |-> id]

\* The digests handed to the table: those of the messages of 'h' and 'e'.
TableDigests == {Sha256Result(msg) : msg \in SeqsUpTo({104, 101}, MaxPayload)}

\* ---------------------------------------------------- storage/filesystem.rs

\* The files under the storage prefix: a map from a path (relative to the
\* prefix) to the file's bytes and its read-only flag.
FsCreate(fs, path) ==
    [q \in (DOMAIN fs) \cup {path} |->
        IF q = path THEN [content |-> <<>>, readonly |-> FALSE] ELSE fs[q]]

\* (a slip: every write at offset 0 of an emptied file)
FsAppendOverwrites(fs, path, bytes) ==
    [fs EXCEPT ![path].content = bytes]

\* write(2) through the open descriptor: the bytes are appended.
FsAppend(fs, path, bytes) ==
    [fs EXCEPT ![path].content = @ \o bytes]

\* (a slip: a copy onto the destination that does not truncate it first)
FsRenameAppends(fs, from, to) ==
    [q \in ((DOMAIN fs) \ {from}) \cup {to} |->
        IF q = to
        THEN IF to \in DOMAIN fs
             THEN [fs[to] EXCEPT !.content = @ \o fs[from].content]
             ELSE fs[from]
        ELSE fs[q]]

\* fs::rename: the destination names the source's file, replacing whatever it
\* named before, in one step; the source name is gone.
FsRename(fs, from, to) ==
    [q \in ((DOMAIN fs) \ {from}) \cup {to} |->
        IF q = to THEN fs[from] ELSE fs[q]]

\* (a slip: perms.set_readonly(false))
FsSetReadonlyClears(fs, path) ==
    [fs EXCEPT ![path].readonly = FALSE]

\* fs::set_permissions with perms.set_readonly(true)
FsSetReadonly(fs, path) ==
    [fs EXCEPT ![path].readonly = TRUE]

\* fs::create_dir_all(prefix/xx): the prefix and the subdirectory exist
\* afterwards.
CreateDirAll(ds, dir) == ds \cup {<<>>, dir}

\* FilesystemStorage::get_path, its directory making aside: Some(path) when
\* the two-part path exists.
get_path(fs, digest) ==
    IF TwoPartPath(digest) \in DOMAIN fs THEN Some(TwoPartPath(digest)) ELSE None

IsStagingPath(path) == Len(path) = 1 /\ path[1] \in StagingNames
StagingPath(name) == <<name>>

\* The outcome of an ingest call: Ok((size, digest)) or Err(what failed).
Ok(size, digest) ==
    [ok |-> TRUE, size |-> Some(size), digest |-> Some(digest), err |-> ""]
Err(what) ==
    [ok |-> FALSE, size |-> None, digest |-> None, err |-> what]

\* The state of one caller: where its ingest call stands and the call's locals.
Idle ==
    [pc |-> "idle", computer |-> ComputerDefault, total_size |-> 0,
     temp_path |-> None, data |-> <<>>, digest |-> None, dest_path |-> None,
     result |-> None,
     delivered |-> <<>>, nchunks |-> 0, pulls |-> 0, src_err |-> FALSE]

VARIABLES
    dtable,     \* the session's DigestTable
    issued,     \* history: the <<digest, BlobId>> pairs digest_to_id returned
    last_call,  \* history: the last digest_to_id call, None before the first
    prefix_ok,  \* whether the storage prefix converts to a str (p.to_str())
    dirs,       \* the directories existing at or under the prefix
    files,      \* the files existing under the prefix
    call,       \* per caller: the ingest call in progress, or the last result
    ncalls,     \* the ingest calls started so far
    returned    \* history: what the successful ingest calls were given and returned

VARIABLES
    last_lookup, \* history: the last get_path or open call and what it returned
    tree,        \* the manifest file of each directory from the root (0) to the cwd
    find,        \* the call of Manifest::find: its place, its path p, its result
    manifest,    \* a Manifest in memory
    upsert,      \* history: the last insert_or_update call, the map before it, its notes
    coll,        \* a Collection in memory, its item ids those of dtable
    saved,       \* what clone_serde made of coll, once it has
    dtable2,     \* the DigestTable of the session that loads
    loaded,      \* what into_runtime made of saved, once it has
    doc,         \* the text the manifest was serialized to, once it has been
    insert,      \* the call of Collection::insert_item: its place, spec and result
    hexcall,     \* a digest written as text and the text decoded: place, text, result
    session,     \* a Session: its fields beside the manifest, its call, its last result
    cwd          \* the files provide_blob has put in the current directory

tvars == <<dtable, issued, last_call>>
svars == <<prefix_ok, dirs, files, call, ncalls, returned>>
lvars == <<last_lookup>>
fvars == <<tree, find>>
\* The variables that neither the table nor ingest touches.
mvars == <<manifest, upsert>>
cvars == <<coll, saved, dtable2, loaded, doc>>
ivars == <<insert>>
xvars == <<hexcall>>
evars == <<session, cwd>>
ovars == <<lvars, fvars, mvars, cvars, ivars, xvars, evars>>
vars == <<dtable, issued, last_call, prefix_ok, dirs, files, call, ncalls, returned,
          ovars>>

\* The parts of the state a specification leaves alone, as they start.
LookupIdle == last_lookup = None
FindIdle ==
    /\ tree = <<>>
    /\ find = [pc |-> "idle", p |-> <<>>, result |-> None, probes |-> <<>>]
ManifestIdle == manifest = [blobs |-> <<>>] /\ upsert = None
SerdeIdle ==
    /\ coll = <<>> /\ saved = None /\ dtable2 = DigestTableNew
    /\ loaded = None /\ doc = None
InsertIdle == insert = [pc |-> "idle", spec |-> <<>>, at |-> 0, result |-> None, nok |-> 0]
HexIdle == hexcall = <<>>
SessionIdle == session = <<>> /\ cwd = <<>>
OtherIdle ==
    /\ LookupIdle /\ FindIdle /\ ManifestIdle /\ SerdeIdle /\ InsertIdle /\ HexIdle
    /\ SessionIdle

TableInit ==
    /\ dtable = DigestTableNew
    /\ issued = {}
    /\ last_call = None

StoreInit ==
    /\ prefix_ok \in BOOLEAN
    /\ dirs \in {{}, {<<>>}}
    /\ files = <<>>
    /\ call = [p \in Procs |-> Idle]
    /\ ncalls = 0
    /\ returned = {}

Init == TableInit /\ StoreInit /\ OtherIdle

\* ------------------------------------------------- DigestTable operations

\* One call of digest_to_id.  The table is not made to grow beyond MaxTable.
DigestToId(digest) ==
    LET r == digest_to_id(dtable, digest)
    IN  /\ Len(r.table.digests) <= MaxTable
        /\ dtable' = r.table
        /\ issued' = issued \cup {<<digest, r.id>>}
        /\ last_call' = Some([digest |-> digest, id |-> r.id,
                               seen |-> \E pair \in issued : pair[1] = digest,
                               nbefore |-> Cardinality({pair[1] : pair \in issued})])
        /\ UNCHANGED <<svars, ovars>>

TableNext == \E digest \in TableDigests : DigestToId(digest)

\* The table on its own, beside a store nobody uses.
TableSpecInit ==
    /\ TableInit
    /\ prefix_ok = TRUE
    /\ dirs = {<<>>}
    /\ files = <<>>
    /\ call = [p \in Procs |-> Idle]
    /\ ncalls = 0
    /\ returned = {}
    /\ OtherIdle

SpecTable == TableSpecInit /\ [][TableNext]_vars

\* ------------------------------------------------ FilesystemStorage::ingest

\* The calls so far that returned Ok for the payload.
OkCount(payload) == Cardinality({r \in returned : r.payload = payload})

\* The call of caller p returns Err(what): the caller is idle again and the
\* call's locals are gone.
ReturnErr(p, what) ==
    /\ call' = [call EXCEPT ![p] = [Idle EXCEPT !.result = Some(Err(what))]]
    /\ UNCHANGED returned

\* The call of caller p returns Ok((size, digest)).
ReturnOk(p, size, digest) ==
    /\ call' = [call EXCEPT ![p] = [Idle EXCEPT !.result = Some(Ok(size, digest)),
                                                !.delivered = call[p].delivered,
                                                !.nchunks = call[p].nchunks]]
    /\ returned' = returned \cup
                      {[payload |-> call[p].delivered, size |-> size, digest |-> digest,
                        nth |-> OkCount(call[p].delivered) + 1]}

\* filesystem.rs 63-83: the template is made from the prefix; a prefix that is
\* no str ends the call at once.
IngestBegin(p) ==
    /\ call[p].pc = "idle"
    /\ ncalls < MaxIngests
    /\ ncalls' = ncalls + 1
    /\ IF prefix_ok
       THEN call' = [call EXCEPT ![p] = [Idle EXCEPT !.pc = "mkstemp"]]
       ELSE call' = [call EXCEPT ![p] =
                        [Idle EXCEPT !.result = Some(Err("path is not Unicode-compatible"))]]
    /\ UNCHANGED <<ovars, dtable, issued, last_call, prefix_ok, dirs, files, returned>>

\* (a slip: one fixed staging name, opened without O_EXCL)
MkstempFixedName(p) ==
    /\ call[p].pc = "mkstemp"
    /\ <<>> \in dirs
    /\ LET name == CHOOSE n \in StagingNames : TRUE
       IN  /\ files' = FsCreate(files, StagingPath(name))
           /\ call' = [call EXCEPT ![p].pc = "pull",
                                   ![p].temp_path = Some(StagingPath(name))]
    /\ UNCHANGED <<ovars, dtable, issued, last_call, prefix_ok, dirs, ncalls, returned>>

\* filesystem.rs 86-90: TempFile::new creates a file under a name no file has
\* (mkstemp opens with O_EXCL), in the prefix directory, which must exist.
MkstempOk(p) ==
    /\ call[p].pc = "mkstemp"
    /\ <<>> \in dirs
    /\ \E name \in StagingNames :
        /\ StagingPath(name) \notin DOMAIN files
        /\ files' = FsCreate(files, StagingPath(name))
        /\ call' = [call EXCEPT ![p].pc = "pull",
                                ![p].temp_path = Some(StagingPath(name))]
    /\ UNCHANGED <<ovars, dtable, issued, last_call, prefix_ok, dirs, ncalls, returned>>

MkstempErr(p) ==
    /\ call[p].pc = "mkstemp"
    /\ ReturnErr(p, "couldn't create temporary file")
    /\ UNCHANGED <<ovars, dtable, issued, last_call, prefix_ok, dirs, files, ncalls>>

\* filesystem.rs 94-96: source.get_chunk().await? gives a chunk, which is
\* counted and hashed.
GetChunkSome(p) ==
    /\ call[p].pc = "pull"
    /\ call[p].nchunks < MaxChunks
    /\ \E data \in Payloads :
        /\ Len(call[p].delivered) + Len(data) <= MaxPayload
        /\ call' = [call EXCEPT
                        ![p].pc = "write",
                        ![p].data = data,
                        ![p].total_size = @ + Len(data),
                        ![p].computer = ComputerInput(@, data),
                        ![p].delivered = @ \o data,
                        ![p].nchunks = @ + 1,
                        ![p].pulls = @ + 1]
    /\ UNCHANGED <<ovars, dtable, issued, last_call, prefix_ok, dirs, files, ncalls, returned>>

\* (a slip: the end of the stream met while a chunk is still to be written)
GetChunkNoneBeforeWrite(p) ==
    /\ call[p].pc \in {"pull", "write"}
    /\ call' = [call EXCEPT ![p].pc = "finalize", ![p].pulls = @ + 1]
    /\ UNCHANGED <<ovars, dtable, issued, last_call, prefix_ok, dirs, files, ncalls, returned>>

\* filesystem.rs 94: get_chunk gives None: the stream is finished and the
\* tempfile is closed (it leaves its block; it was made not to delete itself).
GetChunkNone(p) ==
    /\ call[p].pc = "pull"
    /\ call' = [call EXCEPT ![p].pc = "finalize", ![p].pulls = @ + 1]
    /\ UNCHANGED <<ovars, dtable, issued, last_call, prefix_ok, dirs, files, ncalls, returned>>

\* (a slip: `while let Ok(Some(data))`, an error taken for the end of the stream)
AfterChunkErrAsEnd(c) ==
    [c EXCEPT !.pc = "finalize", !.src_err = TRUE, !.pulls = @ + 1]

\* Where the call stands after get_chunk gave an error: `?` returns it.
AfterChunkErr(c) ==
    [Idle EXCEPT !.result = Some(Err("get_chunk")), !.src_err = TRUE]

\* filesystem.rs 94: get_chunk gives an error.
GetChunkErr(p) ==
    /\ call[p].pc = "pull"
    /\ call' = [call EXCEPT ![p] = AfterChunkErr(call[p])]
    /\ UNCHANGED <<ovars, dtable, issued, last_call, prefix_ok, dirs, files, ncalls, returned>>

\* filesystem.rs 97: tempfile.write_all(&data) appends the chunk to the
\* staging file.
WriteAllOk(p) ==
    /\ call[p].pc = "write"
    /\ files' = FsAppend(files, call[p].temp_path[1], call[p].data)
    /\ call' = [call EXCEPT ![p].pc = "pull", ![p].data = <<>>]
    /\ UNCHANGED <<ovars, dtable, issued, last_call, prefix_ok, dirs, ncalls, returned>>

\* (a slip: the error of the write dropped, the loop going on)
AfterWriteErrIgnored(c) == [c EXCEPT !.pc = "pull", !.data = <<>>]

\* Where the call stands after write_all gave an error: `?` returns it.
AfterWriteErr(c) == [Idle EXCEPT !.result = Some(Err("write_all"))]

\* write_all fails after writing some of the chunk, not all of it.
WriteAllErr(p) ==
    /\ call[p].pc = "write"
    /\ \E n \in 0..Len(call[p].data) :
        /\ n < Len(call[p].data) \/ n = 0
        /\ files' = FsAppend(files, call[p].temp_path[1], SubSeq(call[p].data, 1, n))
    /\ call' = [call EXCEPT ![p] = AfterWriteErr(call[p])]
    /\ UNCHANGED <<ovars, dtable, issued, last_call, prefix_ok, dirs, ncalls, returned>>

\* filesystem.rs 105-109: the digest is finalized and create_two_part_path
\* makes the first-byte subdirectory and gives the destination.
CreateTwoPartPathOk(p) ==
    /\ call[p].pc = "finalize"
    /\ LET digest == DigestFromComputer(call[p].computer)
       IN  /\ dirs' = CreateDirAll(dirs, TwoPartDir(digest))
           /\ call' = [call EXCEPT ![p].pc = "rename",
                                   ![p].digest = Some(digest),
                                   ![p].dest_path = Some(TwoPartPath(digest))]
    /\ UNCHANGED <<ovars, dtable, issued, last_call, prefix_ok, files, ncalls, returned>>

CreateTwoPartPathErr(p) ==
    /\ call[p].pc = "finalize"
    /\ ReturnErr(p, "couldn't make directories")
    /\ UNCHANGED <<ovars, dtable, issued, last_call, prefix_ok, dirs, files, ncalls>>

\* filesystem.rs 110-113: fs::rename(&temp_path, &dest_path).
RenameOk(p) ==
    /\ call[p].pc = "rename"
    /\ call[p].temp_path[1] \in DOMAIN files
    /\ <<call[p].dest_path[1][1]>> \in dirs
    /\ files' = FsRename(files, call[p].temp_path[1], call[p].dest_path[1])
    /\ call' = [call EXCEPT ![p].pc = "metadata"]
    /\ UNCHANGED <<ovars, dtable, issued, last_call, prefix_ok, dirs, ncalls, returned>>

RenameErr(p) ==
    /\ call[p].pc = "rename"
    /\ ReturnErr(p, "couldn't rename")
    /\ UNCHANGED <<ovars, dtable, issued, last_call, prefix_ok, dirs, files, ncalls>>

\* filesystem.rs 115-117: fs::metadata(&dest_path).
MetadataOk(p) ==
    /\ call[p].pc = "metadata"
    /\ call[p].dest_path[1] \in DOMAIN files
    /\ call' = [call EXCEPT ![p].pc = "chmod"]
    /\ UNCHANGED <<ovars, dtable, issued, last_call, prefix_ok, dirs, files, ncalls, returned>>

MetadataErr(p) ==
    /\ call[p].pc = "metadata"
    /\ ReturnErr(p, "couldn't get info for file")
    /\ UNCHANGED <<ovars, dtable, issued, last_call, prefix_ok, dirs, files, ncalls>>

\* filesystem.rs 118-121: the permissions read, made read-only, are set and
\* the call returns Ok((total_size, digest)).
SetPermissionsOk(p) ==
    /\ call[p].pc = "chmod"
    /\ call[p].dest_path[1] \in DOMAIN files
    /\ files' = FsSetReadonly(files, call[p].dest_path[1])
    /\ ReturnOk(p, call[p].total_size, call[p].digest[1])
    /\ UNCHANGED <<ovars, dtable, issued, last_call, prefix_ok, dirs, ncalls>>

SetPermissionsErr(p) ==
    /\ call[p].pc = "chmod"
    /\ ReturnErr(p, "couldn't make file read-only")
    /\ UNCHANGED <<ovars, dtable, issued, last_call, prefix_ok, dirs, files, ncalls>>

\* The caller drops the future while it waits at its one await, get_chunk:
\* the call goes no further and returns nothing.
Abandon(p) ==
    /\ call[p].pc = "pull"
    /\ ReturnErr(p, "abandoned")
    /\ UNCHANGED <<ovars, dtable, issued, last_call, prefix_ok, dirs, files, ncalls>>

Next ==
    \/ \E p \in Procs : IngestBegin(p)
    \/ \E p \in Procs : MkstempOk(p)
    \/ \E p \in Procs : MkstempErr(p)
    \/ \E p \in Procs : GetChunkSome(p)
    \/ \E p \in Procs : GetChunkNone(p)
    \/ \E p \in Procs : GetChunkErr(p)
    \/ \E p \in Procs : WriteAllOk(p)
    \/ \E p \in Procs : WriteAllErr(p)
    \/ \E p \in Procs : CreateTwoPartPathOk(p)
    \/ \E p \in Procs : CreateTwoPartPathErr(p)
    \/ \E p \in Procs : RenameOk(p)
    \/ \E p \in Procs : RenameErr(p)
    \/ \E p \in Procs : MetadataOk(p)
    \/ \E p \in Procs : MetadataErr(p)
    \/ \E p \in Procs : SetPermissionsOk(p)
    \/ \E p \in Procs : SetPermissionsErr(p)
    \/ \E p \in Procs : Abandon(p)

Spec == Init /\ [][Next]_vars

\* ------------------------------------------------------------- properties

\* The successful result a caller holds, its call over.
Succeeded(p) ==
    /\ call[p].pc = "idle"
    /\ call[p].result # None
    /\ call[p].result[1].ok

\* The committed files: those at a path that is no staging path.
CanonicalPaths == {q \in DOMAIN files : ~IsStagingPath(q)}

\* The callers whose staging file is theirs to write and rename.
Staging(p) == call[p].pc \in {"pull", "write", "finalize", "rename"}

\* C1: a digest passed to digest_to_id again gets the BlobId it got before, and
\* id_to_digest gives back the digest of every BlobId digest_to_id returned.
C1_DigestToIdIdempotent ==
    \A a \in issued :
        /\ \A b \in issued : a[1] = b[1] => a[2] = b[2]
        /\ a[2] < Len(dtable.digests)
        /\ id_to_digest(dtable, a[2]) = a[1]
        /\ digest_to_id(dtable, a[1]).id = a[2]

\* A digest recorded earlier was passed in again, beside another digest.
C1_Witness ==
    /\ last_call # None
    /\ last_call[1].seen
    /\ Len(dtable.digests) >= 2

\* C2: the table is append-only: a step leaves every recorded digest at its
\* index and every recorded digest with its BlobId; no pair goes or changes.
C2_AppendOnly ==
    [][/\ IsPrefix(dtable.digests, dtable'.digests)
       /\ \A d \in DOMAIN dtable.digest_to_id :
            /\ d \in DOMAIN dtable'.digest_to_id
            /\ dtable'.digest_to_id[d] = dtable.digest_to_id[d]
       /\ \A a \in issued :
            /\ a[2] < Len(dtable'.digests)
            /\ id_to_digest(dtable', a[2]) = a[1]]_vars

\* A new digest was recorded in a table that held two already.
C2_Witness ==
    /\ last_call # None
    /\ ~last_call[1].seen
    /\ last_call[1].nbefore = 2
    /\ Len(dtable.digests) = 3

\* C3: a digest not yet recorded gets the number of digests recorded before
\* it, so the BlobIds issued are 0..n-1 for the n digests recorded, each within
\* the range of id_to_digest.
C3_SequentialIds ==
    LET n == Len(dtable.digests)
    IN  /\ {a[2] : a \in issued} = 0..(n - 1)
        /\ Cardinality({a[1] : a \in issued}) = n
        /\ Cardinality(DOMAIN dtable.digest_to_id) = n
        /\ \A a \in issued : a[2] + 1 \in DOMAIN dtable.digests
        /\ (last_call # None /\ ~last_call[1].seen)
               => last_call[1].id = last_call[1].nbefore

\* A third digest was recorded and got BlobId 2.
C3_Witness ==
    /\ last_call # None
    /\ ~last_call[1].seen
    /\ last_call[1].id = 2
    /\ Cardinality(issued) = 3

\* C4: a successful ingest returns the sum of the lengths of the chunks it was
\* given and the digest of their concatenation, however they were split.
C4_SizeAndDigest ==
    /\ \A p \in Procs :
        Succeeded(p) =>
            /\ call[p].result[1].size = Some(Len(call[p].delivered))
            /\ call[p].result[1].digest = Some(Sha256Result(call[p].delivered))
    /\ \A r \in returned :
        /\ r.size = Len(r.payload)
        /\ r.digest = Sha256Result(r.payload)

\* An ingest given a two-byte payload in two chunks has returned Ok.
C4_Witness ==
    \E p \in Procs :
        /\ Succeeded(p)
        /\ Len(call[p].delivered) = 2
        /\ call[p].nchunks = 2

\* C5: once an ingest of payload P has returned digest d, get_path(d) gives
\* the two-part path of d (two hex digits, then the other bytes' hex) and the
\* file there holds the bytes of P.
C5_PathHoldsPayload ==
    \A p \in Procs :
        Succeeded(p) =>
            LET d == call[p].result[1].digest[1]
                path == get_path(files, d)
            IN  /\ path # None
                /\ Len(path[1]) = 2
                /\ path[1][1] = ByteToHex(d[1])
                /\ path[1][2] = bytes_to_hex(SubSeq(d, 2, N_BYTES))
                /\ Len(path[1][2]) = 2 * (N_BYTES - 1)
                /\ files[path[1]].content = call[p].delivered

\* An ingest of a two-byte payload given in two chunks has returned Ok while
\* the other caller's ingest is under way.
C5_Witness ==
    \E p, q \in Procs :
        /\ Succeeded(p)
        /\ Len(call[p].delivered) = 2
        /\ call[p].nchunks = 2
        /\ call[q].pc = "rename"

\* C6: two successful ingests of one payload return the same size and digest,
\* and from the first one on exactly one committed file holds the payload,
\* the one at the digest's path.
C6_IdempotentIngest ==
    \A r \in returned :
        /\ \A r2 \in returned :
            r2.payload = r.payload => (r2.size = r.size /\ r2.digest = r.digest)
        /\ TwoPartPath(r.digest) \in DOMAIN files
        /\ files[TwoPartPath(r.digest)].content = r.payload
        /\ {q \in CanonicalPaths : files[q].content = r.payload}
               = {TwoPartPath(r.digest)}
        /\ \A q \in CanonicalPaths :
            q = TwoPartPath(r.digest) => files[q].content = r.payload

\* One caller has ingested a one-byte payload twice, one call after the
\* other, the other caller doing nothing.
C6_Witness ==
    \E p \in Procs :
        /\ Succeeded(p)
        /\ Len(call[p].delivered) = 1
        /\ \E r \in returned : r.payload = call[p].delivered /\ r.nth = 2
        /\ \A q \in Procs \ {p} : call[q].pc = "idle" /\ call[q].result = None

\* The calls that ended on an error of get_chunk or were dropped.
CutShort(c) == c.src_err \/ c.result = Some(Err("abandoned"))

\* C7: an ingest whose get_chunk gives an error, or that is dropped, returns
\* a failure without a digest in that very step, which changes no file and no
\* directory; the call then takes no further step (no pull, no rename), so
\* what it leaves is at most its staging file.
C7_ChunkErrorAborts ==
    [][\A p \in Procs :
        CutShort(call'[p]) =>
            /\ call'[p].pc = "idle"
            /\ call'[p].result # None
            /\ ~call'[p].result[1].ok
            /\ call'[p].result[1].digest = None
            /\ call'[p].result[1].size = None
            /\ ~CutShort(call[p]) =>
                /\ call[p].pc = "pull"
                /\ files' = files
                /\ dirs' = dirs
                /\ returned' = returned
                /\ call[p].temp_path[1] \in DOMAIN files
                /\ IsStagingPath(call[p].temp_path[1])]_vars

\* get_chunk gave an error after a chunk was written: the staging file stays
\* with that chunk and nothing is committed.
C7_Witness ==
    \E p \in Procs :
        /\ call[p].src_err
        /\ CanonicalPaths = {}
        /\ \E q \in DOMAIN files : IsStagingPath(q) /\ Len(files[q].content) = 1

\* C8: every file at a two-part path holds content whose digest gives that
\* path; content written in part is in staging files alone.
C8_CanonicalContentMatchesDigest ==
    \A q \in DOMAIN files :
        \/ IsStagingPath(q)
        \/ q = TwoPartPath(Sha256Result(files[q].content))

\* A write failed half way (one byte of a two-byte chunk is in a staging file
\* nobody owns any more) and another ingest has committed its file.
C8_Witness ==
    /\ CanonicalPaths # {}
    /\ \E q \in DOMAIN files :
        /\ IsStagingPath(q)
        /\ Len(files[q].content) = 1
        /\ \E p \in Procs : call[p].result = Some(Err("write_all"))
        /\ \A p \in Procs : call[p].temp_path # Some(q)

\* C9: two ingests of one payload under way together never stop one another:
\* whichever has come to its rename still has its staging file and its
\* directory, whichever has renamed finds the destination there; and when
\* both have returned Ok they returned the same size and digest, and exactly
\* one committed file holds the payload.
C9_SamePayloadRace ==
    \A p, q \in Procs :
        (p # q) =>
            /\ call[p].pc = "rename" =>
                /\ call[p].temp_path[1] \in DOMAIN files
                /\ TwoPartDir(call[p].digest[1]) \in dirs
                /\ files[call[p].temp_path[1]].content = call[p].delivered
            /\ call[p].pc \in {"metadata", "chmod"} =>
                /\ call[p].dest_path[1] \in DOMAIN files
                /\ files[call[p].dest_path[1]].content = call[p].delivered
            /\ (Succeeded(p) /\ Succeeded(q) /\ call[p].delivered = call[q].delivered) =>
                /\ call[p].result = call[q].result
                /\ {f \in CanonicalPaths : files[f].content = call[p].delivered}
                       = {TwoPartPath(call[p].result[1].digest[1])}

\* Both callers have renamed their staging file of the same two-byte payload
\* to the one destination and neither has yet made it read-only.
C9_Witness ==
    \E p, q \in Procs :
        /\ p # q
        /\ call[p].pc = "chmod"
        /\ call[q].pc = "chmod"
        /\ call[p].delivered = call[q].delivered
        /\ Len(call[p].delivered) = 2
        /\ call[p].dest_path = call[q].dest_path

\* C10: two ingests of different payloads under way together have different
\* staging files, each holding what its own caller wrote, and different
\* destinations; when both have returned Ok each payload is in its own
\* committed file.
C10_DifferentPayloadsApart ==
    \A p, q \in Procs :
        (p # q) =>
            /\ (Staging(p) /\ Staging(q)) => call[p].temp_path # call[q].temp_path
            /\ Staging(p) =>
                /\ call[p].temp_path[1] \in DOMAIN files
                /\ IsStagingPath(call[p].temp_path[1])
                /\ files[call[p].temp_path[1]].content \o call[p].data = call[p].delivered
            /\ (/\ call[p].dest_path # None
                /\ call[q].dest_path # None
                /\ call[p].delivered # call[q].delivered) =>
                    call[p].dest_path # call[q].dest_path
            /\ (Succeeded(p) /\ Succeeded(q) /\ call[p].delivered # call[q].delivered) =>
                LET fp == TwoPartPath(call[p].result[1].digest[1])
                    fq == TwoPartPath(call[q].result[1].digest[1])
                IN  /\ fp # fq
                    /\ fp \in DOMAIN files /\ files[fp].content = call[p].delivered
                    /\ fq \in DOMAIN files /\ files[fq].content = call[q].delivered

\* Two ingests of different payloads whose digests share the first byte have
\* both renamed into the one subdirectory, neither having returned yet.
C10_Witness ==
    \E p, q \in Procs :
        /\ p # q
        /\ call[p].pc = "chmod"
        /\ call[q].pc = "chmod"
        /\ call[p].delivered # call[q].delivered
        /\ call[p].dest_path[1][1] = call[q].dest_path[1][1]

\* C11: the step in which an ingest returns Ok with digest d leaves the file
\* at d's two-part path there and read-only.
C11_ReadOnlyAtReturn ==
    [][\A p \in Procs :
        (call'[p] # call[p] /\ Succeeded(p)') =>
            LET path == TwoPartPath(call'[p].result[1].digest[1])
            IN  /\ path \in DOMAIN files'
                /\ files'[path].readonly]_vars

\* An ingest has just returned Ok for a payload that was committed before:
\* its file, which it had renamed over the read-only one, is read-only again.
C11_Witness ==
    \E p \in Procs :
        /\ Succeeded(p)
        /\ \E r \in returned : r.payload = call[p].delivered /\ r.nth = 2
        /\ files[TwoPartPath(call[p].result[1].digest[1])].readonly

\* ------------------------------------- FilesystemStorage::get_path and open

\* The digests looked up: those of the payloads.
LookupDigests == {Sha256Result(msg) : msg \in Payloads}

\* The one caller whose ingests fill the store that is looked into.
Solo == {CHOOSE p \in Procs : TRUE}

\* io::try_open: Some(the file's bytes, to be read) or None when no file is
\* there.  Opening a blob file that exists is taken to succeed.
try_open(fs, path) ==
    IF path \in DOMAIN fs THEN Some(fs[path].content) ELSE None

\* What a lookup leaves in last_lookup.
Looked(op, digest, ok, value) ==
    Some([op |-> op, digest |-> digest, ok |-> ok, value |-> value,
          existed |-> TwoPartPath(digest) \in DOMAIN files])

\* filesystem.rs 42-51: create_two_part_path makes the subdirectory, then the
\* path is given if it exists.
GetPathOk(digest) ==
    /\ dirs' = CreateDirAll(dirs, TwoPartDir(digest))
    /\ last_lookup' = Looked("get_path", digest, TRUE, get_path(files, digest))
    /\ UNCHANGED <<evars, tvars, xvars, fvars, mvars, cvars, ivars, prefix_ok, files, call, ncalls, returned>>

\* filesystem.rs 43-44: the subdirectory is not there and cannot be made
\* (create_dir_all is content with a directory that exists): ctry! returns
\* the error.
GetPathErr(digest) ==
    /\ TwoPartDir(digest) \notin dirs
    /\ last_lookup' = Looked("get_path", digest, FALSE, None)
    /\ UNCHANGED <<evars, tvars, xvars, svars, fvars, mvars, cvars, ivars>>

\* filesystem.rs 53-57: the same with io::try_open for path.exists().
OpenOk(digest) ==
    /\ dirs' = CreateDirAll(dirs, TwoPartDir(digest))
    /\ last_lookup' = Looked("open", digest, TRUE, try_open(files, TwoPartPath(digest)))
    /\ UNCHANGED <<evars, tvars, xvars, fvars, mvars, cvars, ivars, prefix_ok, files, call, ncalls, returned>>

OpenErr(digest) ==
    /\ TwoPartDir(digest) \notin dirs
    /\ last_lookup' = Looked("open", digest, FALSE, None)
    /\ UNCHANGED <<evars, tvars, xvars, svars, fvars, mvars, cvars, ivars>>

LookupNext ==
    \/ \E digest \in LookupDigests : GetPathOk(digest)
    \/ \E digest \in LookupDigests : GetPathErr(digest)
    \/ \E digest \in LookupDigests : OpenOk(digest)
    \/ \E digest \in LookupDigests : OpenErr(digest)
    \/ \E p \in Solo : IngestBegin(p)
    \/ \E p \in Solo : MkstempOk(p)
    \/ \E p \in Solo : MkstempErr(p)
    \/ \E p \in Solo : GetChunkSome(p)
    \/ \E p \in Solo : GetChunkNone(p)
    \/ \E p \in Solo : GetChunkErr(p)
    \/ \E p \in Solo : WriteAllOk(p)
    \/ \E p \in Solo : WriteAllErr(p)
    \/ \E p \in Solo : CreateTwoPartPathOk(p)
    \/ \E p \in Solo : CreateTwoPartPathErr(p)
    \/ \E p \in Solo : RenameOk(p)
    \/ \E p \in Solo : RenameErr(p)
    \/ \E p \in Solo : MetadataOk(p)
    \/ \E p \in Solo : MetadataErr(p)
    \/ \E p \in Solo : SetPermissionsOk(p)
    \/ \E p \in Solo : SetPermissionsErr(p)
    \/ \E p \in Solo : Abandon(p)

\* The store looked into while one caller ingests into it.
SpecLookup == Init /\ [][LookupNext]_vars

\* C12: get_path and open give Ok(Some) exactly when a file is at the
\* digest's two-part path and Ok(None), never an error, when none is.
C12_LookupNeverFails ==
    last_lookup # None =>
        /\ last_lookup[1].ok
        /\ (last_lookup[1].value # None) <=> last_lookup[1].existed

\* ------------------------------------------------------------- manifest.rs

MaxDepth == 2

MANIFEST_STEM == ".blobs.toml"
PARENT_DIR == ".."

\* The names blobs and collections are given, in the order of str's Ord.
Names == <<"a", "b", "c">>
NameSet == {Names[i] : i \in 1..Len(Names)}
\* (a name that is an absolute path starts with "/", which is below every
\* letter)
NameRank(n) ==
    IF \E i \in 1..Len(Names) : Names[i] = n
    THEN CHOOSE i \in 1..Len(Names) : Names[i] = n
    ELSE 0
NameLess(m, n) == NameRank(m) < NameRank(n)

\* BlobInfo { size, sha256, url }.
BlobInfos ==
    { [size |-> Len(msg), sha256 |-> Sha256Result(msg), url |-> u] :
        msg \in {<<104>>, <<104, 104>>}, u \in {None, Some("http://h/x")} }

\* Manifest { blobs: HashMap<String, BlobInfo> }.
ManifestEmpty == [blobs |-> <<>>]

\* A TOML text: the [blobs.<name>] tables in the order they are written, or
\* bytes that are not TOML at all.
TomlText(entries) == [toml |-> TRUE, entries |-> entries]
NotToml == [toml |-> FALSE, entries |-> <<>>]

\* toml::from_slice into Manifest: an error for what is not TOML and for a
\* table defined twice, else the map of the tables.
toml_from_slice(text) ==
    LET es == text.entries
        keys == {es[i].name : i \in 1..Len(es)}
    IN  IF ~text.toml \/ Cardinality(keys) # Len(es)
        THEN None
        ELSE Some([blobs |->
                    [n \in keys |-> (es[CHOOSE i \in 1..Len(es) : es[i].name = n]).info]])

\* PathBuf::pop and PathBuf::push on a relative path kept as its components.
PathPop(p) == SubSeq(p, 1, Len(p) - 1)
PathPush(p, c) == Append(p, c)

\* The current directory at depth d below the root, as its Normal components.
Cwd(depth) == [i \in 1..depth |-> i]

\* Where a relative path leads from the current directory: ".." goes to the
\* parent, and the root is its own parent.
RECURSIVE ResolveFrom(_, _)
ResolveFrom(at, p) ==
    IF p = <<>> THEN at
    ELSE ResolveFrom(IF Head(p) = PARENT_DIR
                        THEN (IF at = <<>> THEN at ELSE SubSeq(at, 1, Len(at) - 1))
                        ELSE Append(at, Head(p)),
                     Tail(p))

\* Path::canonicalize of a path of directories that exist: its Normal
\* components, and an error for the empty path.
canonicalize(depth, p) ==
    IF p = <<>> THEN None ELSE Some(ResolveFrom(Cwd(depth), p))

\* manifest.rs 113-128 with every Component::Normal seen as not the root.
at_filesystem_root_one_early(depth, p) ==
    IF Len(p) = 0 THEN Some(FALSE)
    ELSE LET c == canonicalize(depth, p)
         IN  IF c = None THEN None ELSE Some(Len(c[1]) <= 1)

\* manifest.rs 113-128 without the case of the empty path.
at_filesystem_root_canonicalize_always(depth, p) ==
    LET c == canonicalize(depth, p)
    IN  IF c = None THEN None ELSE Some(Len(c[1]) = 0)

\* manifest.rs 113-128: Some(whether p is a filesystem root), None when
\* canonicalize fails.  The empty path is not canonicalized.
at_filesystem_root(depth, p) ==
    IF Len(p) = 0 THEN Some(FALSE)
    ELSE LET c == canonicalize(depth, p)
         IN  IF c = None THEN None ELSE Some(Len(c[1]) = 0)

\* What a directory holds under the name .blobs.toml: nothing, a file that
\* opens (with its text), or something that cannot be opened.
Absent == [kind |-> "absent", text |-> NotToml]
Denied == [kind |-> "denied", text |-> NotToml]
File(text) == [kind |-> "file", text |-> text]
FindTexts ==
    { NotToml, TomlText(<<>>),
      TomlText(<<[name |-> "a",
                  info |-> [size |-> 1, sha256 |-> Sha256Result(<<104>>), url |-> None]]>>) }
LevelStates == {Absent, Denied} \cup {File(t) : t \in FindTexts}

Depth == Cardinality(DOMAIN tree) - 1
\* The level (0 the root, Depth the current directory) of the directory in
\* which the path p names a file.
LevelOf(p) == Len(ResolveFrom(Cwd(Depth), PathPop(p)))

FindOk(m, path) == [ok |-> TRUE, manifest |-> m, path |-> path]
FindErr == [ok |-> FALSE, manifest |-> ManifestEmpty, path |-> None]

FindInit ==
    /\ \E d \in 0..MaxDepth : tree \in [0..d -> LevelStates]
    /\ find = [pc |-> "idle", p |-> <<>>, result |-> None, probes |-> <<>>]

\* manifest.rs 97.
FindBegin ==
    /\ find.pc = "idle"
    /\ find' = [find EXCEPT !.pc = "open", !.p = <<MANIFEST_STEM>>]
    /\ UNCHANGED <<evars, tvars, xvars, svars, lvars, mvars, cvars, ivars, tree>>

FindProbed == Append(find.probes, LevelOf(find.p))

\* manifest.rs 100-105: the file opens, is read and parses.
FindParsed ==
    /\ find.pc = "open"
    /\ tree[LevelOf(find.p)].kind = "file"
    /\ toml_from_slice(tree[LevelOf(find.p)].text) # None
    /\ find' = [find EXCEPT !.pc = "done", !.probes = FindProbed,
                    !.result = Some(FindOk(toml_from_slice(tree[LevelOf(find.p)].text)[1],
                                           Some(find.p)))]
    /\ UNCHANGED <<evars, tvars, xvars, svars, lvars, mvars, cvars, ivars, tree>>

\* manifest.rs 104: toml::from_slice(&buf)? on a text that does not parse.
FindParseErr ==
    /\ find.pc = "open"
    /\ tree[LevelOf(find.p)].kind = "file"
    /\ toml_from_slice(tree[LevelOf(find.p)].text) = None
    /\ find' = [find EXCEPT !.pc = "done", !.probes = FindProbed,
                    !.result = Some(FindErr)]
    /\ UNCHANGED <<evars, tvars, xvars, svars, lvars, mvars, cvars, ivars, tree>>

\* (a slip: every failure to open taken as NotFound)
FindOpenErrMovesUp ==
    /\ find.pc = "open"
    /\ tree[LevelOf(find.p)].kind = "denied"
    /\ find' = [find EXCEPT !.pc = "pop", !.probes = FindProbed, !.p = PathPop(find.p)]
    /\ UNCHANGED <<evars, tvars, xvars, svars, lvars, mvars, cvars, ivars, tree>>

\* manifest.rs 100: try_open fails with something other than NotFound.
FindOpenErr ==
    /\ find.pc = "open"
    /\ tree[LevelOf(find.p)].kind = "denied"
    /\ find' = [find EXCEPT !.pc = "done", !.probes = FindProbed,
                    !.result = Some(FindErr)]
    /\ UNCHANGED <<evars, tvars, xvars, svars, lvars, mvars, cvars, ivars, tree>>

\* manifest.rs 100, 108: no file there; p.pop().
FindOpenNone ==
    /\ find.pc = "open"
    /\ tree[LevelOf(find.p)].kind = "absent"
    /\ find' = [find EXCEPT !.pc = "pop", !.probes = FindProbed, !.p = PathPop(find.p)]
    /\ UNCHANGED <<evars, tvars, xvars, svars, lvars, mvars, cvars, ivars, tree>>

\* manifest.rs 113-141: at a filesystem root the manifest is empty and has
\* no path; a failing canonicalize is returned.
FindAtRoot ==
    /\ find.pc = "pop"
    /\ at_filesystem_root(Depth, find.p) # Some(FALSE)
    /\ find' = [find EXCEPT !.pc = "done",
                    !.result = IF at_filesystem_root(Depth, find.p) = None
                               THEN Some(FindErr)
                               ELSE Some(FindOk(ManifestEmpty, None))]
    /\ UNCHANGED <<evars, tvars, xvars, svars, lvars, mvars, cvars, ivars, tree>>

\* (a slip: the parent's parent tried next)
FindParentSkipsLevel ==
    /\ find.pc = "pop"
    /\ at_filesystem_root(Depth, find.p) = Some(FALSE)
    /\ find' = [find EXCEPT !.pc = "open",
                    !.p = PathPush(PathPush(PathPush(find.p, PARENT_DIR), PARENT_DIR),
                                   MANIFEST_STEM)]
    /\ UNCHANGED <<evars, tvars, xvars, svars, lvars, mvars, cvars, ivars, tree>>

\* manifest.rs 143-145: try a higher-level parent.
FindParent ==
    /\ find.pc = "pop"
    /\ at_filesystem_root(Depth, find.p) = Some(FALSE)
    /\ find' = [find EXCEPT !.pc = "open",
                    !.p = PathPush(PathPush(find.p, PARENT_DIR), MANIFEST_STEM)]
    /\ UNCHANGED <<evars, tvars, xvars, svars, lvars, mvars, cvars, ivars, tree>>

FindNext ==
    \/ FindBegin
    \/ FindParsed
    \/ FindParseErr
    \/ FindOpenErr
    \/ FindOpenNone
    \/ FindAtRoot
    \/ FindParent

\* Manifest::find from a directory at most MaxDepth below the root.
FindSpecInit ==
    /\ TableInit /\ StoreInit /\ LookupIdle /\ ManifestIdle /\ SerdeIdle /\ InsertIdle /\ HexIdle /\ SessionIdle /\ FindInit
    /\ prefix_ok /\ dirs = {}
SpecFind == FindSpecInit /\ [][FindNext]_vars

\* The levels that hold a manifest file, and the path find builds for one.
ManifestLevels == {l \in DOMAIN tree : tree[l].kind = "file"}
Nearest == CHOOSE l \in ManifestLevels : \A m \in ManifestLevels : m <= l
PathTo(level) == [i \in 1..(Depth - level) |-> PARENT_DIR] \o <<MANIFEST_STEM>>
FindReturned == find.pc = "done"

\* C13: a find that succeeds where some directory from the current one up to
\* the root holds a manifest file returns the parsed manifest of the nearest
\* such directory and the path it was read from, never one farther up.
C13_NearestManifest ==
    (FindReturned /\ find.result[1].ok /\ ManifestLevels # {}) =>
        /\ find.result[1].path = Some(PathTo(Nearest))
        /\ toml_from_slice(tree[Nearest].text) = Some(find.result[1].manifest)

C13_Witness ==
    /\ FindReturned /\ find.result[1].ok
    /\ Cardinality(ManifestLevels) = 2
    /\ Nearest < Depth
    /\ find.result[1].manifest # ManifestEmpty

MapInsert(f, k, v) == [n \in DOMAIN f \cup {k} |-> IF n = k THEN v ELSE f[n]]

\* bm_note!(nbe, ...): what the notification backend is told.
Note(what, name) == [what |-> what, name |-> name]

\* manifest.rs 150-152.
lookup(m, name) == IF name \in DOMAIN m.blobs THEN Some(m.blobs[name]) ELSE None

\* manifest.rs 158-179 with an occupied entry left as it is.
insert_or_update_keeps_old(m, name, binfo) ==
    IF name \in DOMAIN m.blobs
    THEN [manifest |-> m,
          notes |-> <<IF m.blobs[name] # binfo
                      THEN Note("updating", name) ELSE Note("unchanged", name)>>]
    ELSE [manifest |-> [blobs |-> MapInsert(m.blobs, name, binfo)], notes |-> <<>>]

\* manifest.rs 158-179: the manifest afterwards and the notes sent to nbe.
insert_or_update(m, name, binfo) ==
    IF name \in DOMAIN m.blobs
    THEN [manifest |-> [blobs |-> MapInsert(m.blobs, name, binfo)],
          notes |-> <<IF m.blobs[name] # binfo
                      THEN Note("updating", name) ELSE Note("unchanged", name)>>]
    ELSE [manifest |-> [blobs |-> MapInsert(m.blobs, name, binfo)], notes |-> <<>>]

InsertOrUpdate(name, binfo) ==
    LET r == insert_or_update(manifest, name, binfo)
    IN  /\ manifest' = r.manifest
        /\ upsert' = Some([name |-> name, binfo |-> binfo, before |-> manifest,
                           notes |-> r.notes])
        /\ UNCHANGED <<evars, tvars, xvars, svars, lvars, fvars, cvars, ivars>>

ManifestNext == \E name \in NameSet, binfo \in BlobInfos : InsertOrUpdate(name, binfo)

ManifestSpecInit ==
    /\ TableInit /\ StoreInit /\ LookupIdle /\ FindIdle /\ ManifestIdle /\ SerdeIdle /\ InsertIdle /\ HexIdle /\ SessionIdle
    /\ prefix_ok /\ dirs = {}
\* A manifest that starts empty and is filled by insert_or_update.
SpecManifest == ManifestSpecInit /\ [][ManifestNext]_vars

\* C15: after insert_or_update(name, info) lookup(name) is info and every
\* other name is as before; an entry that was there and differed is noted as
\* updating, an equal one as unchanged, and a new name gives no note.
C15_Upsert ==
    upsert # None =>
        LET u == upsert[1]
            old == lookup(u.before, u.name)
        IN  /\ lookup(manifest, u.name) = Some(u.binfo)
            /\ \A n \in NameSet \ {u.name} : lookup(manifest, n) = lookup(u.before, n)
            /\ (old # None /\ old # Some(u.binfo)) => u.notes = <<Note("updating", u.name)>>
            /\ old = Some(u.binfo) => u.notes = <<Note("unchanged", u.name)>>
            /\ old = None => u.notes = <<>>

C15_Witness ==
    /\ upsert # None
    /\ Cardinality(DOMAIN manifest.blobs) = 2
    /\ upsert[1].notes = <<Note("updating", upsert[1].name)>>

\* ------------------------------------------- collection.rs: the serde bridge

MaxItems == 2

\* The sequences without repetition of elements of S, up to length n.
DistinctSeqsUpTo(S, n) ==
    {q \in SeqsUpTo(S, n) : \A i, j \in 1..Len(q) : q[i] = q[j] => i = j}
\* The orders in which the elements of S can come.
Perms(S) == {q \in DistinctSeqsUpTo(S, Cardinality(S)) : Len(q) = Cardinality(S)}

\* The digests that items stand for.
SerdeDigests == {Sha256Result(<<>>), Sha256Result(<<104>>), Sha256Result(<<101>>)}

\* The table left by digest_to_id of each digest of ds in turn.
RECURSIVE TableOf(_, _)
TableOf(table, ds) ==
    IF ds = <<>> THEN table
    ELSE TableOf(digest_to_id(table, Head(ds)).table, Tail(ds))

\* retrieval/url.rs 21-28, 41-43 and retrieval.rs 37-47.
UrlRetrievalNew == [struct |-> "UrlRetrieval"]
clone_any(r) == [type |-> "url", inner |-> r]
boxify(any) == any.inner

\* The size and the user's key/value pairs an item is made with.
ItemSpecs ==
    { [size |-> 1, extra |-> [url |-> "http://h/x"]],
      [size |-> 2, extra |-> [url |-> "http://h/y", note |-> "n"]] }

\* collection.rs 135-143: Item::clone_serde.
item_clone_serde(item, table) ==
    [digest |-> id_to_digest(table, item.id), size |-> item.size, extra |-> item.extra]

\* collection.rs 157-164 with the id of the table's first digest for every item.
item_into_runtime_first_id(si, table) ==
    LET r == digest_to_id(table, si.digest)
    IN  [item |-> [id |-> 0, size |-> si.size, extra |-> si.extra],
         table |-> r.table]

\* collection.rs 157-164: SerdeItem::into_runtime, with the table it leaves.
item_into_runtime(si, table) ==
    LET r == digest_to_id(table, si.digest)
    IN  [item |-> [id |-> r.id, size |-> si.size, extra |-> si.extra],
         table |-> r.table]

\* collection.rs 77-87 with the first item left out.
clone_serde_skips_first(c, table) ==
    [name |-> c.name, keys |-> c.keys, retrieval |-> clone_any(c.retrieval),
     item |-> [i \in 1..(Len(c.items) - 1) |-> item_clone_serde(c.items[i + 1], table)],
     metadata |-> c.metadata]

\* collection.rs 77-87: Collection::clone_serde; the items are mapped in the
\* order of the Vec.
clone_serde(c, table) ==
    [name |-> c.name, keys |-> c.keys, retrieval |-> clone_any(c.retrieval),
     item |-> [i \in 1..Len(c.items) |-> item_clone_serde(c.items[i], table)],
     metadata |-> c.metadata]

\* collection.rs 104-108: drain(..).map(into_runtime).collect(), which
\* interns the digests from the first item to the last.
RECURSIVE ItemsIntoRuntime(_, _, _)
ItemsIntoRuntime(sis, table, done) ==
    IF sis = <<>> THEN [items |-> done, table |-> table]
    ELSE LET r == item_into_runtime(Head(sis), table)
         IN  ItemsIntoRuntime(Tail(sis), r.table, Append(done, r.item))

\* collection.rs 101-117: SerdeCollection::into_runtime, with the table it leaves.
into_runtime(sc, table) ==
    LET r == ItemsIntoRuntime(sc.item, table, <<>>)
    IN  [collection |-> [name |-> sc.name, keys |-> sc.keys,
                         retrieval |-> boxify(sc.retrieval),
                         items |-> r.items, metadata |-> sc.metadata],
         table |-> r.table]

\* BTreeMap::insert of a new key into the entries kept in key order.
RECURSIVE BTreeInsert(_, _)
BTreeInsert(es, e) ==
    IF es = <<>> THEN <<e>>
    ELSE IF NameLess(e.name, Head(es).name) THEN <<e>> \o es
    ELSE <<Head(es)>> \o BTreeInsert(Tail(es), e)

RECURSIVE BTreeCollect(_, _, _)
BTreeCollect(blobs, iter, es) ==
    IF iter = <<>> THEN es
    ELSE BTreeCollect(blobs, Tail(iter),
                      BTreeInsert(es, [name |-> Head(iter), info |-> blobs[Head(iter)]]))

\* manifest.rs 78-87 with the map serialized as the HashMap iterates.
serialize_map_as_iterated(blobs, iter) ==
    TomlText([i \in 1..Len(iter) |-> [name |-> iter[i], info |-> blobs[iter[i]]]])

\* manifest.rs 78-87: the HashMap, which iterates in the order iter, is
\* collected into a BTreeMap and that is serialized.
serialize_map_sorted(blobs, iter) == TomlText(BTreeCollect(blobs, iter, <<>>))

\* The manifests that are serialized: some of the names, each with its blob.
SerdeManifests ==
    { [blobs |-> [n \in ns |-> [size |-> NameRank(n),
                                sha256 |-> Sha256Result(<<104>>), url |-> None]]] :
        ns \in SUBSET NameSet }

\* The collections whose items have ids of the table: as main.rs 61-65 makes
\* them, then filled.
CollectionsOf(table) ==
    { [name |-> "www", keys |-> <<"url">>, retrieval |-> UrlRetrievalNew,
       items |-> its, metadata |-> <<>>] :
        its \in SeqsUpTo({ [id |-> id, size |-> sp.size, extra |-> sp.extra] :
                            id \in 0..(Len(table.digests) - 1), sp \in ItemSpecs },
                         MaxItems) }

SerdeInit ==
    /\ issued = {} /\ last_call = None
    /\ saved = None /\ dtable2 = DigestTableNew /\ loaded = None /\ doc = None
    /\ upsert = None
    /\ \/ /\ manifest = ManifestEmpty
          /\ \E ds \in DistinctSeqsUpTo(SerdeDigests, MaxTable) :
                dtable = TableOf(DigestTableNew, ds)
          /\ coll \in CollectionsOf(dtable)
       \/ /\ manifest \in SerdeManifests
          /\ dtable = TableOf(DigestTableNew, <<Sha256Result(<<104>>), Sha256Result(<<>>)>>)
          /\ coll \in CollectionsOf(dtable)

\* collection.rs 77-87.
CloneSerde ==
    /\ saved = None
    /\ saved' = Some(clone_serde(coll, dtable))
    /\ UNCHANGED <<evars, tvars, xvars, svars, lvars, fvars, mvars, ivars, coll, dtable2, loaded, doc>>

\* blobs.rs 47-56: the loading session has met a digest before it loads.
Intern2(digest) ==
    /\ loaded = None
    /\ Len(digest_to_id(dtable2, digest).table.digests) <= MaxTable
    /\ dtable2' = digest_to_id(dtable2, digest).table
    /\ UNCHANGED <<evars, tvars, xvars, svars, lvars, fvars, mvars, ivars, coll, saved, loaded, doc>>

\* collection.rs 101-117.
IntoRuntime ==
    /\ saved # None /\ loaded = None
    /\ LET r == into_runtime(saved[1], dtable2)
       IN  /\ loaded' = Some(r.collection)
           /\ dtable2' = r.table
    /\ UNCHANGED <<evars, tvars, xvars, svars, lvars, fvars, mvars, ivars, coll, saved, doc>>

\* lib.rs 166: toml::ser::to_string_pretty(&self.manifest).
SerializeManifest(iter) ==
    /\ doc = None
    /\ doc' = Some([iter |-> iter, text |-> serialize_map_sorted(manifest.blobs, iter)])
    /\ UNCHANGED <<evars, tvars, xvars, svars, lvars, fvars, mvars, ivars, coll, saved, dtable2, loaded>>

SerdeNext ==
    \/ CloneSerde
    \/ \E digest \in SerdeDigests : Intern2(digest)
    \/ IntoRuntime
    \/ \E iter \in Perms(DOMAIN manifest.blobs) : SerializeManifest(iter)

SerdeSpecInit ==
    /\ StoreInit /\ LookupIdle /\ FindIdle /\ InsertIdle /\ HexIdle /\ SessionIdle /\ SerdeInit
    /\ prefix_ok /\ dirs = {}
\* A manifest and a collection saved by one session and loaded by another.
SpecSerde == SerdeSpecInit /\ [][SerdeNext]_vars

\* The collection with its items in another order.
Reordered(c, q) == [c EXCEPT !.items = [i \in 1..Len(q) |-> c.items[q[i]]]]
StrictlySorted(es) == \A i \in 1..(Len(es) - 1) : NameLess(es[i].name, es[i + 1].name)

\* C16 as stated: the document does not depend on the order in which
\* anything was inserted or is held: every order of the map's entries gives
\* the text written, and every order of a collection's items gives the
\* persisted collection.
C16_AnyOrderSameDocument ==
    /\ doc # None =>
            \A iter \in Perms(DOMAIN manifest.blobs) :
                serialize_map_sorted(manifest.blobs, iter) = doc[1].text
    /\ saved # None =>
            \A q \in Perms(1..Len(coll.items)) :
                clone_serde(Reordered(coll, q), dtable) = saved[1]

\* C16, amended: the entries held under names are written sorted by name,
\* so that the text is the same for every order the map holds them in and
\* reads back as the same map; the items of a collection, which have no
\* name, are persisted in the order of the collection's list.
C16_NamedEntriesSorted ==
    /\ doc # None =>
            /\ StrictlySorted(doc[1].text.entries)
            /\ toml_from_slice(doc[1].text) = Some(manifest)
            /\ \A iter \in Perms(DOMAIN manifest.blobs) :
                    serialize_map_sorted(manifest.blobs, iter) = doc[1].text
    /\ saved # None =>
            /\ Len(saved[1].item) = Len(coll.items)
            /\ \A i \in 1..Len(coll.items) :
                    saved[1].item[i] = item_clone_serde(coll.items[i], dtable)

C16_Witness ==
    /\ doc # None /\ Len(doc[1].iter) = 3 /\ doc[1].iter[1] = "c"
    /\ saved # None /\ Len(saved[1].item) = 2
    /\ saved[1].item[1] # saved[1].item[2]

\* C17: the collection loaded with the second table has the name, keys and
\* metadata of the one saved with the first and, item by item, the same
\* digest, size and metadata, whatever the ids are in either table.
C17_RoundTrip ==
    loaded # None =>
        LET c == loaded[1]
        IN  /\ c.name = coll.name /\ c.keys = coll.keys /\ c.metadata = coll.metadata
            /\ Len(c.items) = Len(coll.items)
            /\ \A i \in 1..Len(c.items) :
                /\ c.items[i].id < Len(dtable2.digests)
                /\ id_to_digest(dtable2, c.items[i].id) = id_to_digest(dtable, coll.items[i].id)
                /\ c.items[i].size = coll.items[i].size
                /\ c.items[i].extra = coll.items[i].extra

C17_Witness ==
    /\ loaded # None /\ Len(loaded[1].items) = 2
    /\ Len(dtable2.digests) > Len(dtable.digests)
    /\ \A i \in 1..2 : loaded[1].items[i].id # coll.items[i].id
    /\ loaded[1].items[1].id > loaded[1].items[2].id

\* C18: clone_serde gives one persisted item for each runtime item and
\* into_runtime one runtime item for each persisted one; a persisted item
\* has the digest its item's id stands for in the table, and the persisted
\* form has no field for an id.
C18_TotalConversion ==
    /\ saved # None =>
            /\ Len(saved[1].item) = Len(coll.items)
            /\ DOMAIN saved[1] = {"name", "keys", "retrieval", "item", "metadata"}
            /\ \A i \in 1..Len(coll.items) :
                /\ saved[1].item[i].digest = id_to_digest(dtable, coll.items[i].id)
                /\ DOMAIN saved[1].item[i] = {"digest", "size", "extra"}
    /\ loaded # None => Len(loaded[1].items) = Len(saved[1].item)

C18_Witness ==
    /\ loaded # None /\ Len(loaded[1].items) = 2
    /\ coll.items[1].id = coll.items[2].id
    /\ saved[1].item[1].digest = saved[1].item[2].digest

\* ------------------------------------------------- Collection::insert_item

\* toml::Value::String and toml::Value::Integer.
TomlString(v) == [string |-> v]
TomlInteger(v) == [integer |-> v]

\* The item specs given to insert_item: with a url, with a url and more,
\* with no url, and with a url that is no string.
InsertSpecs ==
    { [url |-> TomlString("http://h/x")],
      [url |-> TomlString("http://h/x"), note |-> TomlString("n")],
      [note |-> TomlString("n")],
      [url |-> TomlInteger(7)] }

\* retrieval/url.rs 33: item_spec.get("url") is Some(toml::Value::String(_)).
HasStringUrl(item_spec) ==
    /\ "url" \in DOMAIN item_spec
    /\ DOMAIN item_spec.url = {"string"}

\* collection.rs 38-46 and main.rs 61-64: Collection::new, then set_keys.
CollectionNew(name, retrieval) ==
    [name |-> name, keys |-> <<>>, retrieval |-> retrieval, items |-> <<>>,
     metadata |-> <<>>]
set_keys(c, keys) == [c EXCEPT !.keys = keys]

\* collection.rs 66-70 with the spec left out of the item.
MakeItemWithoutSpec(id, size, item_spec) == [id |-> id, size |-> size, extra |-> <<>>]

\* collection.rs 66-70: the whole item_spec is the item's extra.
MakeItem(id, size, item_spec) == [id |-> id, size |-> size, extra |-> item_spec]

\* collection.rs 72 with an item that agrees with one already there on
\* every key not pushed.
ItemsPushUnlessKeyed(c, item) ==
    IF \E i \in 1..Len(c.items) :
            \A j \in 1..Len(c.keys) :
                /\ c.keys[j] \in DOMAIN item.extra
                /\ c.keys[j] \in DOMAIN c.items[i].extra
                /\ c.items[i].extra[c.keys[j]] = item.extra[c.keys[j]]
    THEN c
    ELSE [c EXCEPT !.items = Append(c.items, item)]

\* collection.rs 72: self.items.push(item).
ItemsPush(c, item) == [c EXCEPT !.items = Append(c.items, item)]

InsertErr(what) == [ok |-> FALSE, id |-> 0, what |-> what]
InsertOk(id) == [ok |-> TRUE, id |-> id, what |-> ""]

\* collection.rs 61: get_storage fails (config.rs 103-105: no storage backend
\* is configured) and ctry! returns the error.
InsertGetStorageErr(item_spec) ==
    /\ insert.pc = "idle"
    /\ insert' = [insert EXCEPT !.spec = item_spec,
                        !.result = Some(InsertErr("cannot open storage backend"))]
    /\ UNCHANGED <<evars, tvars, xvars, svars, lvars, fvars, mvars, cvars>>

\* retrieval/url.rs 33-38: the spec has no string under "url".
InsertRetrieveErr(item_spec) ==
    /\ insert.pc = "idle"
    /\ ~HasStringUrl(item_spec)
    /\ insert' = [insert EXCEPT !.spec = item_spec,
                        !.result = Some(InsertErr("item is missing a string \"url\" field"))]
    /\ UNCHANGED <<evars, tvars, xvars, svars, lvars, fvars, mvars, cvars>>

\* retrieval/url.rs 34: services.get_url(url).await? fails.
InsertGetUrlErr(item_spec) ==
    /\ insert.pc = "idle"
    /\ HasStringUrl(item_spec)
    /\ insert' = [insert EXCEPT !.spec = item_spec,
                        !.result = Some(InsertErr("get_url"))]
    /\ UNCHANGED <<evars, tvars, xvars, svars, lvars, fvars, mvars, cvars>>

\* collection.rs 61-63: the storage opens and retrieve gives a stream; what
\* the stream holds is the server's to choose.
InsertRetrieved(item_spec) ==
    /\ insert.pc = "idle"
    /\ ncalls < MaxIngests
    /\ HasStringUrl(item_spec)
    /\ insert' = [insert EXCEPT !.pc = "ingest", !.spec = item_spec, !.at = ncalls,
                        !.result = None]
    /\ UNCHANGED <<evars, tvars, xvars, svars, lvars, fvars, mvars, cvars>>

\* collection.rs 64: storage.ingest(stream) is entered, once for the call.
InsertIngestBegin(p) ==
    /\ insert.pc = "ingest"
    /\ ncalls = insert.at
    /\ IngestBegin(p)

\* (a slip: the item is pushed before ingest's result is looked at)
InsertIngestErrAfterPush(p) ==
    /\ insert.pc = "ingest"
    /\ ncalls = insert.at + 1
    /\ call[p].pc = "idle"
    /\ ~call[p].result[1].ok
    /\ coll' = ItemsPush(coll, MakeItem(0, Len(call[p].delivered), insert.spec))
    /\ insert' = [insert EXCEPT !.pc = "idle", !.result = Some(InsertErr("ingest"))]
    /\ UNCHANGED <<evars, tvars, xvars, svars, lvars, fvars, mvars, saved, dtable2, loaded, doc>>

\* collection.rs 64: storage.ingest(stream).await? returns an error.
InsertIngestErr(p) ==
    /\ insert.pc = "ingest"
    /\ ncalls = insert.at + 1
    /\ call[p].pc = "idle"
    /\ ~call[p].result[1].ok
    /\ insert' = [insert EXCEPT !.pc = "idle", !.result = Some(InsertErr("ingest"))]
    /\ UNCHANGED <<evars, tvars, xvars, svars, lvars, fvars, mvars, cvars>>

\* collection.rs 64-73: the digest is interned, the item made and pushed,
\* and the id returned.
InsertItemOk(p) ==
    /\ insert.pc = "ingest"
    /\ ncalls = insert.at + 1
    /\ Succeeded(p)
    /\ LET r == digest_to_id(dtable, call[p].result[1].digest[1])
           item == MakeItem(r.id, call[p].result[1].size[1], insert.spec)
       IN  /\ dtable' = r.table
           /\ coll' = ItemsPush(coll, item)
           /\ insert' = [insert EXCEPT !.pc = "idle", !.result = Some(InsertOk(r.id)),
                                !.nok = insert.nok + 1]
    /\ UNCHANGED <<evars, issued, last_call, xvars, svars, lvars, fvars, mvars,
                   saved, dtable2, loaded, doc>>

CollectionNext ==
    \/ \E item_spec \in InsertSpecs : InsertGetStorageErr(item_spec)
    \/ \E item_spec \in InsertSpecs : InsertRetrieveErr(item_spec)
    \/ \E item_spec \in InsertSpecs : InsertGetUrlErr(item_spec)
    \/ \E item_spec \in InsertSpecs : InsertRetrieved(item_spec)
    \/ \E p \in Solo : InsertIngestBegin(p)
    \/ \E p \in Solo : InsertIngestErr(p)
    \/ \E p \in Solo : InsertItemOk(p)
    \/ \E p \in Solo : MkstempOk(p)
    \/ \E p \in Solo : MkstempErr(p)
    \/ \E p \in Solo : GetChunkSome(p)
    \/ \E p \in Solo : GetChunkNone(p)
    \/ \E p \in Solo : GetChunkErr(p)
    \/ \E p \in Solo : WriteAllOk(p)
    \/ \E p \in Solo : WriteAllErr(p)
    \/ \E p \in Solo : CreateTwoPartPathOk(p)
    \/ \E p \in Solo : CreateTwoPartPathErr(p)
    \/ \E p \in Solo : RenameOk(p)
    \/ \E p \in Solo : RenameErr(p)
    \/ \E p \in Solo : MetadataOk(p)
    \/ \E p \in Solo : MetadataErr(p)
    \/ \E p \in Solo : SetPermissionsOk(p)
    \/ \E p \in Solo : SetPermissionsErr(p)

\* main.rs 61-65: the collection "www" retrieves by URL and is keyed by url.
CollectionSpecInit ==
    /\ TableInit /\ StoreInit /\ LookupIdle /\ FindIdle /\ ManifestIdle /\ InsertIdle /\ HexIdle /\ SessionIdle
    /\ prefix_ok /\ dirs = {<<>>}
    /\ coll = set_keys(CollectionNew("www", UrlRetrievalNew), <<"url">>)
    /\ saved = None /\ dtable2 = DigestTableNew /\ loaded = None /\ doc = None
\* insert_item calls made one after another on one collection of a session.
SpecCollection == CollectionSpecInit /\ [][CollectionNext]_vars

C20_KeysNotEnforced ==
    /\ Len(coll.items) = insert.nok
    /\ \A item_spec \in InsertSpecs :
            (insert.pc = "idle" /\ ncalls < MaxIngests /\ HasStringUrl(item_spec))
                => ENABLED InsertRetrieved(item_spec)

C20_Witness ==
    /\ insert.pc = "idle" /\ insert.nok = 2
    /\ Len(coll.items) = 2
    /\ coll.keys = <<"url">>
    /\ coll.items[1].extra.url = coll.items[2].extra.url
    /\ coll.items[1].id = coll.items[2].id

\* ------------------------------------------- digest.rs: digests as hex text

MaxCut == 2

\* A str is kept as the sequence of its characters, all of them ASCII, so
\* that str::len and the slices text[i*2..(i+1)*2] count characters.
RECURSIVE HexChars(_)
\* digest.rs 23-29 and 88-92: to_string, character by character.
HexChars(bytes) ==
    IF Len(bytes) = 0 THEN <<>>
    ELSE <<HexDigits[(Head(bytes) \div 16) + 1], HexDigits[(Head(bytes) % 16) + 1]>>
            \o HexChars(Tail(bytes))

\* char::to_digit(16): the digits in either case.
UpperHexDigits == <<"0", "1", "2", "3", "4", "5", "6", "7",
                    "8", "9", "A", "B", "C", "D", "E", "F">>
IsHexDigit(c) ==
    \E i \in 1..16 : HexDigits[i] = c \/ UpperHexDigits[i] = c
DigitValue(c) ==
    (CHOOSE i \in 1..16 : HexDigits[i] = c \/ UpperHexDigits[i] = c) - 1

\* u8::from_str_radix(src, 16) of two characters: a leading "+" is taken as
\* a sign, every other character must be a digit.
from_str_radix(src) ==
    IF src[1] = "+" /\ IsHexDigit(src[2]) THEN Some(DigitValue(src[2]))
    ELSE IF IsHexDigit(src[1]) /\ IsHexDigit(src[2])
    THEN Some(16 * DigitValue(src[1]) + DigitValue(src[2]))
    ELSE None

BadLength(expected, actual) ==
    [ok |-> FALSE, digest |-> <<>>, kind |-> "BadLength",
     expected |-> expected, actual |-> actual]
ParseIntError ==
    [ok |-> FALSE, digest |-> <<>>, kind |-> "ParseInt", expected |-> 0, actual |-> 0]
DecodeOk(bytes) ==
    [ok |-> TRUE, digest |-> bytes, kind |-> "", expected |-> 0, actual |-> 0]

\* digest.rs 40-42: the pairs are decoded from the first to the last, and
\* the first that fails ends the call.
RECURSIVE DecodePairs(_, _, _)
DecodePairs(text, n, dest) ==
    IF Len(dest) = n THEN DecodeOk(dest)
    ELSE LET b == from_str_radix(SubSeq(text, 2 * Len(dest) + 1, 2 * Len(dest) + 2))
         IN  IF b = None THEN ParseIntError
             ELSE DecodePairs(text, n, Append(dest, b[1]))

\* digest.rs 32-45 with a text that is too long accepted.
hex_to_bytes_takes_longer(text, n) ==
    IF Len(text) < 2 * n THEN BadLength(2 * n, Len(text))
    ELSE DecodePairs(text, n, <<>>)

\* digest.rs 32-45: hex_to_bytes into a dest of n bytes.
hex_to_bytes(text, n) ==
    IF Len(text) # 2 * n THEN BadLength(2 * n, Len(text))
    ELSE DecodePairs(text, n, <<>>)

\* digest.rs 97-101: DigestData::from_str.
from_str(text) == hex_to_bytes(text, N_BYTES)

\* The digests written as text: those of some payloads, zeros() and the
\* digest whose bytes are all 255.
HexDigests ==
    TableDigests \cup {[i \in 1..N_BYTES |-> 0], [i \in 1..N_BYTES |-> 255]}

\* The characters put into a text: digits of either case, a sign, and
\* characters that are no digit.
OddChars == {"0", "f", "A", "+", "g", " "}

HexInit == hexcall = [pc |-> "start", digest |-> <<>>, text |-> <<>>,
                      clean |-> TRUE, result |-> None]

\* digest.rs 88-92: a digest is written as text.
HexToString(digest) ==
    /\ hexcall.pc = "start"
    /\ hexcall' = [hexcall EXCEPT !.pc = "text", !.digest = digest,
                                  !.text = HexChars(digest)]
    /\ UNCHANGED <<evars, tvars, svars, lvars, fvars, mvars, cvars, ivars>>

\* The text that reaches from_str is not the one written: up to MaxCut
\* characters are missing at its end.
HexTruncate(k) ==
    /\ hexcall.pc = "text"
    /\ hexcall' = [hexcall EXCEPT !.pc = "other", !.clean = FALSE,
                        !.text = SubSeq(hexcall.text, 1, Len(hexcall.text) - k)]
    /\ UNCHANGED <<evars, tvars, svars, lvars, fvars, mvars, cvars, ivars>>

\* ... or characters were added at its end, up to MaxCut of them ...
HexExtend(c) ==
    /\ hexcall.pc \in {"text", "longer"}
    /\ Len(hexcall.text) < 2 * N_BYTES + MaxCut
    /\ hexcall' = [hexcall EXCEPT !.pc = "longer", !.clean = FALSE,
                        !.text = Append(hexcall.text, c)]
    /\ UNCHANGED <<evars, tvars, svars, lvars, fvars, mvars, cvars, ivars>>

\* ... or one of its characters is another one ...
HexReplace(i, c) ==
    /\ hexcall.pc = "text"
    /\ hexcall.text[i] # c
    /\ hexcall' = [hexcall EXCEPT !.pc = "other", !.clean = FALSE,
                        !.text = [hexcall.text EXCEPT ![i] = c]]
    /\ UNCHANGED <<evars, tvars, svars, lvars, fvars, mvars, cvars, ivars>>

\* ... or it is the empty text.
HexEmpty ==
    /\ hexcall.pc = "start"
    /\ hexcall' = [hexcall EXCEPT !.pc = "other", !.clean = FALSE]
    /\ UNCHANGED <<evars, tvars, svars, lvars, fvars, mvars, cvars, ivars>>

\* digest.rs 97-101: the text is decoded.
HexFromStr ==
    /\ hexcall.pc \in {"text", "longer", "other"}
    /\ hexcall' = [hexcall EXCEPT !.pc = "done", !.result = Some(from_str(hexcall.text))]
    /\ UNCHANGED <<evars, tvars, svars, lvars, fvars, mvars, cvars, ivars>>

HexNext ==
    \/ \E digest \in HexDigests : HexToString(digest)
    \/ \E k \in 1..MaxCut : HexTruncate(k)
    \/ \E c \in OddChars : HexExtend(c)
    \/ \E i \in {1, 2, 2 * N_BYTES}, c \in OddChars : HexReplace(i, c)
    \/ HexEmpty
    \/ HexFromStr

HexSpecInit ==
    /\ TableInit /\ StoreInit /\ LookupIdle /\ FindIdle /\ ManifestIdle /\ SerdeIdle
    /\ InsertIdle /\ SessionIdle /\ HexInit
    /\ prefix_ok /\ dirs = {}
\* Digests written as hex text and texts decoded as digests.
SpecHex == HexSpecInit /\ [][HexNext]_vars

\* The str of a sequence of characters.
RECURSIVE Join(_)
Join(chars) == IF chars = <<>> THEN "" ELSE Head(chars) \o Join(Tail(chars))

\* C21: a text that is not 64 characters long is refused with BadLength(64,
\* its length); the text of a digest is 64 lowercase hex digits, the very
\* string bytes_to_hex gives, and decodes to the digest.
C21_HexRoundTrip ==
    /\ hexcall.pc = "done" =>
        /\ Len(hexcall.text) # 64 =>
                hexcall.result[1] = BadLength(64, Len(hexcall.text))
        /\ hexcall.clean => hexcall.result[1] = DecodeOk(hexcall.digest)
    /\ hexcall.pc = "text" =>
        /\ Len(hexcall.digest) = 32
        /\ Len(hexcall.text) = 64
        /\ \A i \in 1..64 : \E j \in 1..16 : hexcall.text[i] = HexDigits[j]
        /\ Join(hexcall.text) = bytes_to_hex(hexcall.digest)

C21_Witness ==
    /\ hexcall.pc = "done"
    /\ ~hexcall.clean
    /\ Len(hexcall.text) = 65
    /\ hexcall.digest[2] # 0
    /\ hexcall.result[1].kind = "BadLength"

\* ---------------------------------------------- the order of ingest's steps

\* The bytes of the staging file of caller p.
Staged(p) == files[call[p].temp_path[1]].content

\* C22: a chunk is pulled only when every chunk pulled before it has been
\* counted, hashed and written whole to the staging file and the source has
\* not signalled its end; the staging file is renamed only after the end of
\* the stream, holding every chunk pulled; a file is made read-only only by
\* a caller that has renamed its staging file to it.
C22_StepOrder ==
    [][\A p \in Procs :
        /\ Len(call'[p].delivered) > Len(call[p].delivered) =>
            /\ call[p].pc = "pull"
            /\ call[p].pulls = call[p].nchunks
            /\ call[p].total_size = Len(call[p].delivered)
            /\ call[p].computer = ComputerInput(ComputerDefault, call[p].delivered)
            /\ Staged(p) = call[p].delivered
        /\ (call[p].pc = "rename" /\ call'[p].pc = "metadata") =>
            /\ call[p].pulls = call[p].nchunks + 1
            /\ Staged(p) = call[p].delivered
            /\ files'[call[p].dest_path[1]].content = call[p].delivered
        /\ \A q \in DOMAIN files' :
            (files'[q].readonly /\ ~(q \in DOMAIN files /\ files[q].readonly)) =>
                /\ q \in DOMAIN files
                /\ \E r \in Procs :
                    /\ call[r].pc = "chmod" /\ call'[r].pc = "idle"
                    /\ call[r].dest_path = Some(q)
                    /\ call[r].pulls = call[r].nchunks + 1
        /\ (call'[p].pc \in {"finalize", "rename", "metadata", "chmod"}
                /\ call[p].pc # "pull") =>
            /\ call'[p].delivered = call[p].delivered
            /\ call'[p].pulls = call[p].pulls]_vars

C22_Witness ==
    \E p \in Procs :
        /\ Succeeded(p)
        /\ call[p].nchunks = 2
        /\ Len(call[p].delivered) = 2
        /\ \E q \in DOMAIN files : files[q].readonly /\ files[q].content = call[p].delivered

\* The digests for which get_path gives a path.
Committed == {d \in LookupDigests : get_path(files, d) # None}

\* C23: an ingest that returns an error has committed nothing: once every
\* call has returned, the digests get_path gives a path for are those that
\* calls returned with Ok.
C23_FailedIngestCommitsNothing ==
    (\A p \in Procs : call[p].pc = "idle") =>
        Committed = {r.digest : r \in returned}

\* ------------------------------------------- Manifest::find: its end, its errors

\* find is straight-line code around one loop: a call that can take a step
\* takes it.
SpecFindFair == FindSpecInit /\ [][FindNext]_vars /\ WF_vars(FindNext)

\* The levels from the current directory up to the root.
Upward == [i \in 1..(Depth + 1) |-> Depth + 1 - i]

\* C24: find makes at most Depth + 2 probes and returns; when it returns the
\* empty manifest it has probed the current directory first and then each
\* ancestor in turn, the root's .blobs.toml last.
C24_FindTerminates ==
    /\ [](Len(find.probes) <= Depth + 2)
    /\ []((FindReturned /\ find.result[1] = FindOk(ManifestEmpty, None)) =>
            /\ Len(find.probes) >= Depth + 1
            /\ SubSeq(find.probes, 1, Depth + 1) = Upward
            /\ find.probes[Len(find.probes)] = 0
            /\ \A i \in 1..(Len(find.probes) - 1) : find.probes[i] >= find.probes[i + 1])
    /\ (find.pc = "open") ~> FindReturned

C24_Witness ==
    /\ FindReturned
    /\ Depth = 0
    /\ Len(find.probes) = Depth + 2
    /\ find.result[1].path = None /\ find.result[1].ok

\* The levels where something is under the name .blobs.toml, and the
\* nearest of them.
Candidates == {l \in DOMAIN tree : tree[l].kind # "absent"}
NearestCandidate == CHOOSE l \in Candidates : \A m \in Candidates : m <= l
Unusable(l) ==
    \/ tree[l].kind = "denied"
    \/ tree[l].kind = "file" /\ toml_from_slice(tree[l].text) = None

\* C25: when the nearest .blobs.toml cannot be opened, though it is there,
\* or does not parse, find returns an error, having probed nothing above
\* it; every probe but the last met NotFound.
C25_FindErrors ==
    FindReturned =>
        /\ \A i \in 1..(Len(find.probes) - 1) : tree[find.probes[i]].kind = "absent"
        /\ (Candidates # {} /\ Unusable(NearestCandidate)) =>
            /\ find.result[1] = FindErr
            /\ find.probes[Len(find.probes)] = NearestCandidate
        /\ ~find.result[1].ok =>
            (Candidates # {} /\ Unusable(NearestCandidate))

C25_Witness ==
    /\ FindReturned /\ ~find.result[1].ok
    /\ Depth = 2 /\ NearestCandidate = 1
    /\ tree[1].kind = "denied"
    /\ tree[0].kind = "file" /\ toml_from_slice(tree[0].text) # None

\* C26: an insert_item that returns an error, whichever of its steps
\* failed, leaves the item list and the DigestTable as they were; both
\* change only in the step that follows a successful ingest and returns Ok.
C26_FailedInsertChangesNothing ==
    [][/\ (insert'.result # None /\ ~insert'.result[1].ok)
            => (coll' = coll /\ dtable' = dtable)
       /\ (coll' # coll \/ dtable' # dtable) =>
            /\ insert.pc = "ingest"
            /\ \E p \in Solo : Succeeded(p)
            /\ insert'.result # None /\ insert'.result[1].ok
            /\ insert'.nok = insert.nok + 1]_vars

C26_Witness ==
    /\ insert.pc = "idle" /\ insert.nok = 1
    /\ insert.result = Some(InsertErr("ingest"))
    /\ Len(coll.items) = 1 /\ Len(dtable.digests) = 1

\* C27: a file of the store that is read-only is there and read-only after
\* every step, the steps of a later ingest of the same content included.
C27_ReadOnlyStays ==
    [][\A q \in DOMAIN files :
        files[q].readonly => (q \in DOMAIN files' /\ files'[q].readonly)]_vars

\* ------------------------------------------------------------ lib.rs: Session

\* The downloads one session is let start.
MaxSessionIngests == 1

\* The absolute path of the storage prefix, and of a blob's file under it.
StorePrefix == "/store"
BlobFile(path) == StorePrefix \o "/" \o path[1] \o "/" \o path[2]
StorePaths == {TwoPartPath(digest) : digest \in LookupDigests}

\* The names blobs are asked for by: a file name and the absolute path of
\* the file the store keeps the empty blob in.
SessionNames == {"a", BlobFile(TwoPartPath(Sha256Result(<<>>)))}

\* Path::new(name) as the file it names: a file of the store when name is
\* the path of one, else the file of that name in the current directory.
StoreFileOf(name) ==
    IF \E q \in StorePaths : BlobFile(q) = name
    THEN Some(CHOOSE q \in StorePaths : BlobFile(q) = name)
    ELSE None

\* URLs as given on the command line: the text, whether hyper::Uri parses
\* it, and its path split at "/".
Urls ==
    { [text |-> "http://h/d/a", parses |-> TRUE, path |-> <<"", "d", "a">>],
      [text |-> "http://h/d a", parses |-> FALSE, path |-> <<>>] }
IngestModes == {"Update", "TrustExisting"}
NameArgs == {None} \cup {Some(n) : n \in SessionNames \ {"a"}}

\* lib.rs 130-136: the name given, else the last piece of the URL's path.
file_name_of(url, name) ==
    IF name # None THEN name[1] ELSE url.path[Len(url.path)]

\* fs::remove_file and fs::hard_link on a directory kept as a function from
\* names to files.
FsRemove(fs, q) == [x \in (DOMAIN fs) \ {q} |-> fs[x]]
FsLink(fs, q, file) == [x \in (DOMAIN fs) \cup {q} |-> IF x = q THEN file ELSE fs[x]]

\* What the last finished operation of the session was and how it ended.
Finished(op, name, ok, what) ==
    Some([op |-> op, name |-> name, ok |-> ok, what |-> what])

SessionFresh(storage_ok) ==
    [pc |-> "new", storage_ok |-> storage_ok, manifest_path |-> None,
     manifest_modified |-> FALSE, arg |-> None, at |-> 0, last |-> None]

SessionText ==
    TomlText(<<[name |-> "a",
                info |-> [size |-> 1, sha256 |-> Sha256Result(<<104>>), url |-> None]]>>)
\* The current directory is one below the root: no manifest, one in the
\* root, one that cannot be opened and one that is no TOML.
SessionTrees ==
    { [l \in 0..1 |-> Absent],
      [l \in 0..1 |-> IF l = 0 THEN File(SessionText) ELSE Absent],
      [l \in 0..1 |-> IF l = 1 THEN Denied ELSE Absent],
      [l \in 0..1 |-> IF l = 1 THEN File(NotToml) ELSE Absent] }

\* A file named a is in the current directory already.
SessionInit ==
    /\ tree \in SessionTrees
    /\ find = [pc |-> "idle", p |-> <<>>, result |-> None, probes |-> <<>>]
    /\ session \in {SessionFresh(b) : b \in BOOLEAN}
    /\ cwd = [n \in {"a"} |-> [content |-> <<1>>, readonly |-> FALSE]]

\* What no operation of the session touches but through ingest.
SessionFrame ==
    UNCHANGED <<tvars, lvars, cvars, ivars, xvars, find, prefix_ok, call, ncalls, returned>>

\* lib.rs 98-108: Session::new takes what Manifest::find returned.
SessionNewOk ==
    /\ session.pc = "new"
    /\ FindReturned /\ find.result[1].ok
    /\ manifest' = find.result[1].manifest
    /\ session' = [session EXCEPT !.pc = "idle", !.manifest_path = find.result[1].path]
    /\ SessionFrame /\ UNCHANGED <<cwd, upsert, tree, files, dirs>>

\* lib.rs 99: Manifest::find()? fails and there is no session.
SessionNewErr ==
    /\ session.pc = "new"
    /\ FindReturned /\ ~find.result[1].ok
    /\ session' = [session EXCEPT !.pc = "failed"]
    /\ SessionFrame /\ UNCHANGED <<cwd, manifest, upsert, tree, files, dirs>>

\* lib.rs 129: url.parse()? fails.
IngestFromUrlParseErr(mode, url, name) ==
    /\ session.pc = "idle"
    /\ ~url.parses
    /\ session' = [session EXCEPT
                       !.last = Finished("ingest_from_url", name, FALSE, "url")]
    /\ SessionFrame /\ UNCHANGED <<cwd, manifest, upsert, tree, files, dirs>>

\* lib.rs 138: get_storage fails.
IngestFromUrlGetStorageErr(mode, url, name) ==
    /\ session.pc = "idle"
    /\ url.parses
    /\ ~session.storage_ok
    /\ session' = [session EXCEPT
                       !.last = Finished("ingest_from_url", Some(file_name_of(url, name)),
                                         FALSE, "cannot open storage backend")]
    /\ SessionFrame /\ UNCHANGED <<cwd, manifest, upsert, tree, files, dirs>>

\* lib.rs 140-144: TrustExisting and the name is known: return Ok(()).
IngestFromUrlTrusted(mode, url, name) ==
    /\ session.pc = "idle"
    /\ url.parses
    /\ session.storage_ok
    /\ mode = "TrustExisting"
    /\ lookup(manifest, file_name_of(url, name)) # None
    /\ session' = [session EXCEPT
                       !.last = Finished("ingest_from_url", Some(file_name_of(url, name)),
                                         TRUE, "trusted")]
    /\ SessionFrame /\ UNCHANGED <<cwd, manifest, upsert, tree, files, dirs>>

\* (a slip: the mode is not looked at)
IngestFromUrlDownloadTrusting(mode, url, name) ==
    /\ session.pc = "idle"
    /\ url.parses
    /\ session.storage_ok
    /\ ncalls < MaxSessionIngests
    /\ session' = [session EXCEPT
                       !.pc = "ingest", !.at = ncalls,
                       !.arg = Some([url |-> url,
                                     file_name |-> file_name_of(url, name)])]
    /\ SessionFrame /\ UNCHANGED <<cwd, manifest, upsert, tree, files, dirs>>

\* lib.rs 140-146: otherwise the URL is downloaded into the storage.
IngestFromUrlDownload(mode, url, name) ==
    /\ session.pc = "idle"
    /\ url.parses
    /\ session.storage_ok
    /\ ~(mode = "TrustExisting" /\ lookup(manifest, file_name_of(url, name)) # None)
    /\ ncalls < MaxSessionIngests
    /\ session' = [session EXCEPT
                       !.pc = "ingest", !.at = ncalls,
                       !.arg = Some([url |-> url,
                                     file_name |-> file_name_of(url, name)])]
    /\ SessionFrame /\ UNCHANGED <<cwd, manifest, upsert, tree, files, dirs>>

\* manifest.rs 51: storage.ingest is entered, once for the call.
IngestFromUrlIngestBegin(p) ==
    /\ session.pc = "ingest"
    /\ ncalls = session.at
    /\ IngestBegin(p)

\* lib.rs 146: new_from_ingest(...)? returns the error of ingest.
IngestFromUrlIngestErr(p) ==
    /\ session.pc = "ingest"
    /\ ncalls = session.at + 1
    /\ call[p].pc = "idle"
    /\ ~call[p].result[1].ok
    /\ session' = [session EXCEPT
                       !.pc = "idle", !.arg = None,
                       !.last = Finished("ingest_from_url", Some(session.arg[1].file_name),
                                         FALSE, "ingest")]
    /\ SessionFrame /\ UNCHANGED <<cwd, manifest, upsert, tree, files, dirs>>

\* lib.rs 146-152: the BlobInfo is made, given the URL and put in the
\* manifest under the file name; the manifest counts as modified.
IngestFromUrlOk(p) ==
    /\ session.pc = "ingest"
    /\ ncalls = session.at + 1
    /\ Succeeded(p)
    /\ LET binfo == [size |-> call[p].result[1].size[1],
                     sha256 |-> call[p].result[1].digest[1],
                     url |-> Some(session.arg[1].url.text)]
           r == insert_or_update(manifest, session.arg[1].file_name, binfo)
       IN  manifest' = r.manifest
    /\ session' = [session EXCEPT
                       !.pc = "idle", !.arg = None, !.manifest_modified = TRUE,
                       !.last = Finished("ingest_from_url", Some(session.arg[1].file_name),
                                         TRUE, "ingested")]
    /\ SessionFrame /\ UNCHANGED <<cwd, upsert, tree, files, dirs>>

\* lib.rs 162-165: the path the manifest is written to, and the level of
\* the directory it is in.
RewritePath ==
    IF session.manifest_path # None THEN session.manifest_path[1] ELSE <<MANIFEST_STEM>>
RewriteText ==
    serialize_map_sorted(manifest.blobs,
                         CHOOSE iter \in Perms(DOMAIN manifest.blobs) : TRUE)

\* lib.rs 158-160: nothing to write.
RewriteManifestUnmodified ==
    /\ session.pc = "idle"
    /\ ~session.manifest_modified
    /\ session' = [session EXCEPT
                       !.last = Finished("rewrite_manifest", None, TRUE, "unmodified")]
    /\ SessionFrame /\ UNCHANGED <<cwd, manifest, upsert, tree, files, dirs>>

\* lib.rs 167: File::create(&path)? fails.
RewriteManifestCreateErr ==
    /\ session.pc = "idle"
    /\ session.manifest_modified
    /\ session' = [session EXCEPT
                       !.last = Finished("rewrite_manifest", None, FALSE, "create")]
    /\ SessionFrame /\ UNCHANGED <<cwd, manifest, upsert, tree, files, dirs>>

\* lib.rs 167-168: the file is created, or emptied, and write! fails.
RewriteManifestWriteErr ==
    /\ session.pc = "idle"
    /\ session.manifest_modified
    /\ tree' = [tree EXCEPT ![LevelOf(RewritePath)] = File(NotToml)]
    /\ session' = [session EXCEPT
                       !.last = Finished("rewrite_manifest", None, FALSE,
                                         "couldn't write manifest file")]
    /\ SessionFrame /\ UNCHANGED <<cwd, manifest, upsert, files, dirs>>

\* (a slip: the flag is left as it was)
RewriteManifestOkKeepsFlag ==
    /\ session.pc = "idle"
    /\ session.manifest_modified
    /\ tree' = [tree EXCEPT ![LevelOf(RewritePath)] = File(RewriteText)]
    /\ session' = [session EXCEPT
                       !.last = Finished("rewrite_manifest", None, TRUE, "written")]
    /\ SessionFrame /\ UNCHANGED <<cwd, manifest, upsert, files, dirs>>

\* lib.rs 162-170: the text is written and the flag cleared.
RewriteManifestOk ==
    /\ session.pc = "idle"
    /\ session.manifest_modified
    /\ tree' = [tree EXCEPT ![LevelOf(RewritePath)] = File(RewriteText)]
    /\ session' = [session EXCEPT
                       !.manifest_modified = FALSE,
                       !.last = Finished("rewrite_manifest", None, TRUE, "written")]
    /\ SessionFrame /\ UNCHANGED <<cwd, manifest, upsert, files, dirs>>

\* Whether Path::new(name) names a file, the files with that name removed,
\* and with that name made a link to a file.
DestExists(name) ==
    IF StoreFileOf(name) # None
    THEN StoreFileOf(name)[1] \in DOMAIN files
    ELSE name \in DOMAIN cwd
DestRemoved(name) ==
    IF StoreFileOf(name) # None
    THEN [files |-> FsRemove(files, StoreFileOf(name)[1]), cwd |-> cwd]
    ELSE [files |-> files, cwd |-> FsRemove(cwd, name)]
DestLinked(fs, name, file) ==
    IF StoreFileOf(name) # None
    THEN [files |-> FsLink(fs.files, StoreFileOf(name)[1], file), cwd |-> fs.cwd]
    ELSE [files |-> fs.files, cwd |-> FsLink(fs.cwd, name, file)]

\* lib.rs 179, 207: get_storage fails.
BlobGetStorageErr(op, name) ==
    /\ session.pc = "idle"
    /\ ~session.storage_ok
    /\ session' = [session EXCEPT
                       !.last = Finished(op, Some(name), FALSE, "cannot open storage backend")]
    /\ SessionFrame /\ UNCHANGED <<cwd, manifest, upsert, tree, files, dirs>>

\* lib.rs 182-185, 209-212: the manifest has no blob of the name.
BlobUnknown(op, name) ==
    /\ session.pc = "idle"
    /\ session.storage_ok
    /\ lookup(manifest, name) = None
    /\ session' = [session EXCEPT
                       !.last = Finished(op, Some(name), FALSE, "no known blob named")]
    /\ SessionFrame /\ UNCHANGED <<cwd, manifest, upsert, tree, files, dirs>>

\* lib.rs 187, 214 with filesystem.rs 43-44, 54-55: the subdirectory of the
\* blob cannot be made.
BlobStorageErr(op, name) ==
    /\ session.pc = "idle"
    /\ session.storage_ok
    /\ lookup(manifest, name) # None
    /\ TwoPartDir(lookup(manifest, name)[1].sha256) \notin dirs
    /\ session' = [session EXCEPT
                       !.last = Finished(op, Some(name), FALSE, "couldn't make directories")]
    /\ SessionFrame /\ UNCHANGED <<cwd, manifest, upsert, tree, files, dirs>>

\* lib.rs 187-190, 214-217: the storage has no file for the digest.
BlobUnavailable(op, name) ==
    /\ session.pc = "idle"
    /\ session.storage_ok
    /\ lookup(manifest, name) # None
    /\ get_path(files, lookup(manifest, name)[1].sha256) = None
    /\ dirs' = CreateDirAll(dirs, TwoPartDir(lookup(manifest, name)[1].sha256))
    /\ session' = [session EXCEPT
                       !.last = Finished(op, Some(name), FALSE, "not available")]
    /\ SessionFrame /\ UNCHANGED <<cwd, manifest, upsert, tree, files>>

\* lib.rs 214-215: the reader of the blob's file is returned.
OpenBlobOk(name) ==
    /\ session.pc = "idle"
    /\ session.storage_ok
    /\ lookup(manifest, name) # None
    /\ get_path(files, lookup(manifest, name)[1].sha256) # None
    /\ dirs' = CreateDirAll(dirs, TwoPartDir(lookup(manifest, name)[1].sha256))
    /\ session' = [session EXCEPT
                       !.last = Finished("open_blob", Some(name), TRUE, "opened")]
    /\ SessionFrame /\ UNCHANGED <<cwd, manifest, upsert, tree, files>>

\* lib.rs 195-196: there is a file at the destination and it cannot be
\* removed.
ProvideBlobRemoveErr(name) ==
    /\ session.pc = "idle"
    /\ session.storage_ok
    /\ lookup(manifest, name) # None
    /\ get_path(files, lookup(manifest, name)[1].sha256) # None
    /\ DestExists(name)
    /\ dirs' = CreateDirAll(dirs, TwoPartDir(lookup(manifest, name)[1].sha256))
    /\ session' = [session EXCEPT
                       !.last = Finished("provide_blob", Some(name), FALSE,
                                         "couldn't remove existing file")]
    /\ SessionFrame /\ UNCHANGED <<cwd, manifest, upsert, tree, files>>

\* lib.rs 195-198: what was at the destination is removed and the link
\* cannot be made, as when the file to link to is no longer there.
ProvideBlobLinkErr(name) ==
    /\ session.pc = "idle"
    /\ session.storage_ok
    /\ lookup(manifest, name) # None
    /\ get_path(files, lookup(manifest, name)[1].sha256) # None
    /\ dirs' = CreateDirAll(dirs, TwoPartDir(lookup(manifest, name)[1].sha256))
    /\ files' = DestRemoved(name).files
    /\ cwd' = DestRemoved(name).cwd
    /\ session' = [session EXCEPT
                       !.last = Finished("provide_blob", Some(name), FALSE, "couldn't link")]
    /\ SessionFrame /\ UNCHANGED <<manifest, upsert, tree>>

\* lib.rs 192-200: what was at the destination is removed and the
\* destination made a hard link to the blob's file.
ProvideBlobOk(name) ==
    /\ session.pc = "idle"
    /\ session.storage_ok
    /\ lookup(manifest, name) # None
    /\ get_path(files, lookup(manifest, name)[1].sha256) # None
    /\ LET storage_path == get_path(files, lookup(manifest, name)[1].sha256)[1]
           removed == DestRemoved(name)
       IN  /\ storage_path \in DOMAIN removed.files
           /\ files' = DestLinked(removed, name, files[storage_path]).files
           /\ cwd' = DestLinked(removed, name, files[storage_path]).cwd
    /\ dirs' = CreateDirAll(dirs, TwoPartDir(lookup(manifest, name)[1].sha256))
    /\ session' = [session EXCEPT
                       !.last = Finished("provide_blob", Some(name), TRUE, "provided")]
    /\ SessionFrame /\ UNCHANGED <<manifest, upsert, tree>>

BlobOps == {"provide_blob", "open_blob"}

SessionNext ==
    \/ FindBegin
    \/ FindParsed
    \/ FindParseErr
    \/ FindOpenErr
    \/ FindOpenNone
    \/ FindAtRoot
    \/ FindParent
    \/ SessionNewOk
    \/ SessionNewErr
    \/ \E mode \in IngestModes, url \in Urls, name \in NameArgs :
            IngestFromUrlParseErr(mode, url, name)
    \/ \E mode \in IngestModes, url \in Urls, name \in NameArgs :
            IngestFromUrlGetStorageErr(mode, url, name)
    \/ \E mode \in IngestModes, url \in Urls, name \in NameArgs :
            IngestFromUrlTrusted(mode, url, name)
    \/ \E mode \in IngestModes, url \in Urls, name \in NameArgs :
            IngestFromUrlDownload(mode, url, name)
    \/ \E p \in Solo : IngestFromUrlIngestBegin(p)
    \/ \E p \in Solo : IngestFromUrlIngestErr(p)
    \/ \E p \in Solo : IngestFromUrlOk(p)
    \/ \E p \in Solo : MkstempOk(p)
    \/ \E p \in Solo : MkstempErr(p)
    \/ \E p \in Solo : GetChunkSome(p)
    \/ \E p \in Solo : GetChunkNone(p)
    \/ \E p \in Solo : GetChunkErr(p)
    \/ \E p \in Solo : WriteAllOk(p)
    \/ \E p \in Solo : WriteAllErr(p)
    \/ \E p \in Solo : CreateTwoPartPathOk(p)
    \/ \E p \in Solo : CreateTwoPartPathErr(p)
    \/ \E p \in Solo : RenameOk(p)
    \/ \E p \in Solo : RenameErr(p)
    \/ \E p \in Solo : MetadataOk(p)
    \/ \E p \in Solo : MetadataErr(p)
    \/ \E p \in Solo : SetPermissionsOk(p)
    \/ \E p \in Solo : SetPermissionsErr(p)
    \/ RewriteManifestUnmodified
    \/ RewriteManifestCreateErr
    \/ RewriteManifestWriteErr
    \/ RewriteManifestOk
    \/ \E op \in BlobOps, name \in SessionNames : BlobGetStorageErr(op, name)
    \/ \E op \in BlobOps, name \in SessionNames : BlobUnknown(op, name)
    \/ \E op \in BlobOps, name \in SessionNames : BlobStorageErr(op, name)
    \/ \E op \in BlobOps, name \in SessionNames : BlobUnavailable(op, name)
    \/ \E name \in SessionNames : OpenBlobOk(name)
    \/ \E name \in SessionNames : ProvideBlobRemoveErr(name)
    \/ \E name \in SessionNames : ProvideBlobLinkErr(name)
    \/ \E name \in SessionNames : ProvideBlobOk(name)

SessionSpecInit ==
    /\ TableInit /\ LookupIdle /\ ManifestIdle /\ SerdeIdle /\ InsertIdle /\ HexIdle
    /\ prefix_ok = TRUE /\ dirs = {<<>>} /\ files = <<>>
    /\ call = [p \in Procs |-> Idle] /\ ncalls = 0 /\ returned = {}
    /\ SessionInit
\* One session from Session::new on, its operations called one after another.
SpecSession == SessionSpecInit /\ [][SessionNext]_vars

\* lib.rs 128-153: what a call of ingest_from_url does before anything is
\* downloaded.
IngestFromUrl(mode, url, name) ==
    \/ IngestFromUrlParseErr(mode, url, name)
    \/ IngestFromUrlGetStorageErr(mode, url, name)
    \/ IngestFromUrlTrusted(mode, url, name)
    \/ IngestFromUrlDownload(mode, url, name)

\* The call names a blob, by name or by a URL that parses.
HasTarget(url, name) == name # None \/ url.parses
Known(url, name) ==
    HasTarget(url, name) /\ lookup(manifest, file_name_of(url, name)) # None

\* The call downloads nothing and leaves the manifest, its flag and the
\* store as they are.
NothingIngested ==
    /\ session'.pc = "idle"
    /\ ncalls' = ncalls
    /\ manifest' = manifest
    /\ session'.manifest_modified = session.manifest_modified
    /\ files' = files /\ dirs' = dirs

\* C28 as it stands: in TrustExisting mode with an entry under the target
\* name ingest_from_url returns Ok(()), downloads nothing and leaves the
\* manifest, its flag and the store as they are; with no entry it does what
\* it does in Update mode.
C28_TrustExistingReturnsOk ==
    [][\A url \in Urls, name \in NameArgs :
        /\ (Known(url, name) /\ IngestFromUrl("TrustExisting", url, name)) =>
                (NothingIngested /\ session'.last[1].ok)
        /\ ~Known(url, name) =>
                (IngestFromUrl("TrustExisting", url, name)
                    <=> IngestFromUrl("Update", url, name))]_vars

\* C28: in TrustExisting mode with an entry under the target name
\* ingest_from_url downloads nothing and leaves the manifest, its flag and
\* the store as they are; it returns Ok(()) when the URL parses and the
\* storage opens and the error otherwise.  With no entry it does what it
\* does in Update mode.
C28_TrustExisting ==
    [][\A url \in Urls, name \in NameArgs :
        /\ (Known(url, name) /\ IngestFromUrl("TrustExisting", url, name)) =>
                /\ NothingIngested
                /\ session'.last[1].ok <=> (url.parses /\ session.storage_ok)
        /\ ~Known(url, name) =>
                (IngestFromUrl("TrustExisting", url, name)
                    <=> IngestFromUrl("Update", url, name))]_vars

C28_Witness ==
    /\ session # <<>> /\ session.pc = "idle"
    /\ session.last = Finished("ingest_from_url", Some("a"), TRUE, "trusted")
    /\ ~session.manifest_modified
    /\ ncalls = 0 /\ files = <<>>
    /\ manifest = toml_from_slice(SessionText)[1]

\* The directory the session's manifest file belongs in: that of the path
\* find returned, the current one when it returned none.
DiscoveredLevel ==
    IF find.result[1].path # None THEN LevelOf(find.result[1].path[1]) ELSE Depth

\* C29: the manifest file is written only by a rewrite_manifest that finds
\* the flag set, and only after an ingest has succeeded; it is the file at
\* the path find returned, .blobs.toml in the current directory when it
\* returned none.  The flag is cleared only by a rewrite_manifest that has
\* written the manifest and returns Ok(()), and every rewrite_manifest that
\* returns Ok(()) leaves the flag cleared.
C29_RewriteManifest ==
    [][/\ tree' # tree =>
            /\ session.pc = "idle" /\ session.manifest_modified
            /\ returned # {}
            /\ session'.last[1].op = "rewrite_manifest"
            /\ \A l \in DOMAIN tree : l # DiscoveredLevel => tree'[l] = tree[l]
       /\ (session.pc = "idle" /\ session.manifest_modified
                /\ ~session'.manifest_modified) =>
            /\ tree'[DiscoveredLevel] = File(RewriteText)
            /\ session'.last = Finished("rewrite_manifest", None, TRUE, "written")
       /\ (session.pc = "idle" /\ session'.last # session.last
                /\ session'.last[1].op = "rewrite_manifest" /\ session'.last[1].ok) =>
            /\ ~session'.manifest_modified
            /\ session.manifest_modified => tree'[DiscoveredLevel] = File(RewriteText)]_vars

C29_Witness ==
    /\ session # <<>> /\ session.pc = "idle"
    /\ session.last = Finished("rewrite_manifest", None, TRUE, "unmodified")
    /\ session.manifest_path = None
    /\ returned # {}
    /\ tree[Depth] = File(RewriteText)
    /\ manifest # ManifestEmpty

\* lib.rs 178-201, 206-217: a call of provide_blob or open_blob.
BlobCall(op, name) ==
    \/ BlobGetStorageErr(op, name)
    \/ BlobUnknown(op, name)
    \/ BlobStorageErr(op, name)
    \/ BlobUnavailable(op, name)
    \/ op = "open_blob" /\ OpenBlobOk(name)
    \/ op = "provide_blob" /\ ProvideBlobRemoveErr(name)
    \/ op = "provide_blob" /\ ProvideBlobLinkErr(name)
    \/ op = "provide_blob" /\ ProvideBlobOk(name)

Unprovidable(name) ==
    \/ lookup(manifest, name) = None
    \/ get_path(files, lookup(manifest, name)[1].sha256) = None

\* C30: provide_blob and open_blob return an error for a name the manifest
\* does not have and for a blob the store does not hold, the file at the
\* destination being left as it is; neither changes the manifest or the
\* files of the store.
C30_BlobLookups ==
    [][\A op \in BlobOps, name \in SessionNames :
        BlobCall(op, name) =>
            /\ Unprovidable(name) =>
                    (~session'.last[1].ok /\ cwd' = cwd /\ files' = files)
            /\ manifest' = manifest
            /\ files' = files]_vars

=============================================================================
